---- MODULE Spec2Model ----
(***************************************************************************)
(* Xnuplot: the session that drives a Gnuplot subprocess over a pty.       *)
(*                                                                         *)
(* The repository holds two revisions of the session:                      *)
(*   src/xnuplot.py          class Gnuplot      (rev = "xnuplot.py")       *)
(*   src/xnuplot/gnuplot.py  class RawGnuplot   (rev = "gnuplot.py")       *)
(* Definitions prefixed X_ model src/xnuplot.py, the others model          *)
(* src/xnuplot/gnuplot.py.  The revision is fixed in the initial state.    *)
(*                                                                         *)
(* A command text is a sequence of tokens (words separated by blanks); a   *)
(* token is a word, the word quit, a newline, or a data placeholder.  The  *)
(* bytes the engine prints are sequences over OutChars.                    *)
(***************************************************************************)
EXTENDS Integers, Sequences, FiniteSets, TLC

\* Longest command text (in tokens) a caller passes.
MaxCmdLen == 3
\* Most lines of a command text.
MaxLines == 2
\* Longest output (in characters) the engine prints for one command.
MaxOutLen == 2

Revisions == {"xnuplot.py", "gnuplot.py"}

Seqs(S, n) == UNION {[1..k -> S] : k \in 0..n}

(***************************************************************************)
(* Command texts.                                                          *)
(***************************************************************************)
Tok(k, mode, name) ==
    [k |-> k, mode |-> mode, name |-> name, n |-> 0, q |-> <<>>]

WordTok == Tok("word", "", "plot")
QuitTok == Tok("word", "", "quit")
NewlineTok == Tok("nl", "", "")
\* {{name}} and {{mode:name}}
BraceTok(mode, name) == Tok("brace", mode, name)

\* File names are sequences of characters; a backslash and a single quote are
\* the characters quote() escapes.
\* The directory tempfile.mkdtemp makes for the session (under the caller's
\* tempdir, whose name may hold any character), and the one a pipe makes for
\* itself when the session has none.
SessionDir == <<"/", "x", "'", "\\", "x">>
OwnDir(n) == <<"/", "x", <<"1", "2", "3", "4", "5", "6">>[n]>>
\* tempfile.mktemp(prefix="fifo.", dir) and tempfile.mkstemp(prefix="file.",
\* dir): a name that no file of the directory has; n numbers the channels
\* of a call.
Path(mode, n, own) ==
    (IF own THEN OwnDir(n) ELSE SessionDir)
        \o <<"/", IF mode = "file" THEN "file." ELSE "fifo.",
              <<"1", "2", "3", "4", "5", "6">>[n]>>

\* str.replace(old, new) for a one-character old
RECURSIVE StrReplace(_, _, _)
StrReplace(s, old, new) ==
    IF s = <<>> THEN <<>>
    ELSE (IF s[1] = old THEN new ELSE <<s[1]>>) \o StrReplace(Tail(s), old, new)

\* quote: "'" + filename.replace("\\", "\\\\").replace("'", "\\'") + "'"
quote(filename) ==
    <<"'">>
        \o StrReplace(StrReplace(filename, "\\", <<"\\", "\\">>), "'", <<"\\", "'">>)
        \o <<"'">>

\* the quoted path of a channel, as substituted for a placeholder
PathTok(mode, name, n, path) ==
    [k |-> "path", mode |-> mode, name |-> name, n |-> n, q |-> quote(path)]

Tokens ==
    {WordTok, QuitTok, NewlineTok,
     BraceTok("", "a"), BraceTok("file", "a"), BraceTok("", "b")}
Commands ==
    {c \in Seqs(Tokens, MaxCmdLen) :
        Cardinality({i \in 1..Len(c) : c[i] = NewlineTok}) < MaxLines}
\* The keyword arguments of a call: a payload for some of the names the
\* command text mentions (a keyword no placeholder names is never read).
DataBindings(c) == SUBSET {c[i].name : i \in {j \in 1..Len(c) : c[j].k = "brace"}}

\* _placeholder_pattern: which tokens the revision's regular expression
\* matches.  src/xnuplot.py knows no mode prefix: {{file:a}} is plain text.
IsPlaceholder(r, tok) ==
    /\ tok.k = "brace"
    /\ IF r = "xnuplot.py" THEN tok.mode = "" ELSE tok.mode \in {"", "file", "pipe"}

\* finditer: the positions of the placeholders of a text, in order
Placeholders(r, text) ==
    SelectSeq([i \in 1..Len(text) |-> i], LAMBDA i : IsPlaceholder(r, text[i]))

\* str.split("\n")
RECURSIVE SplitFrom(_, _, _)
SplitFrom(text, i, cur) ==
    IF i > Len(text) THEN <<cur>>
    ELSE IF text[i].k = "nl" THEN <<cur>> \o SplitFrom(text, i + 1, <<>>)
    ELSE SplitFrom(text, i + 1, Append(cur, text[i]))
Split(text) == SplitFrom(text, 1, <<>>)

\* re.match(r"\s*(quit|exit)(\W|$)", command)
QuitMatch(text) == Len(text) > 0 /\ text[1] = QuitTok

(***************************************************************************)
(* The bytes read from the engine.                                         *)
(***************************************************************************)
OutChars == {"CR", "LF"}
Outputs == Seqs(OutChars, MaxOutLen)
CRLF == <<"CR", "LF">>
\* gp_prompt
Prompt == <<"PROMPT">>
\* The echo of a command line: exact, or with the cursor movement readline
\* inserts at the terminal's right margin; never a CR LF pair.
EchoForms == {<<"e">>, <<"e", "CR", "e">>}

IsAt(buf, pat, i) ==
    /\ i + Len(pat) - 1 <= Len(buf)
    /\ SubSeq(buf, i, i + Len(pat) - 1) = pat

Found(buf, pat) == \E i \in 1..Len(buf) : IsAt(buf, pat, i)

FirstAt(buf, pat) ==
    CHOOSE i \in 1..Len(buf) :
        IsAt(buf, pat, i) /\ \A j \in 1..(i - 1) : ~IsAt(buf, pat, j)

\* pexpect's expect_exact on the buffered bytes: what precedes the first
\* match (before) and what is left in the buffer (after)
ExpectExact(buf, pat) ==
    [before |-> SubSeq(buf, 1, FirstAt(buf, pat) - 1),
     after |-> SubSeq(buf, FirstAt(buf, pat) + Len(pat), Len(buf))]

\* result.replace("\r\n", "\n")
RECURSIVE Replace(_)
Replace(s) ==
    IF s = <<>> THEN <<>>
    ELSE IF IsAt(s, CRLF, 1) THEN <<"LF">> \o Replace(SubSeq(s, 3, Len(s)))
    ELSE <<s[1]>> \o Replace(Tail(s))

\* "\n".join(results)
RECURSIVE Join(_)
Join(rs) ==
    IF rs = <<>> THEN <<>>
    ELSE IF Len(rs) = 1 THEN rs[1].str
    ELSE rs[1].str \o <<"LF">> \o Join(Tail(rs))

(***************************************************************************)
(* State.                                                                  *)
(***************************************************************************)
VARIABLES
    rev,        \* the revision of the session class
    gp_proc,    \* self.gp_proc: "open" or "None"
    running,    \* the Gnuplot subprocess is alive
    tempdir,    \* self.tempdir / self.wk_dir: "set" or "None"
    dirExists,  \* the working directory is on disk
    rmtrees,    \* how often the working directory was deleted
    cause,      \* what terminated the session, "" while it is not terminated
    pc,         \* where the caller's thread is inside __call__
    script,     \* the call is a script (src/xnuplot.py)
    lines,      \* the lines of the command of the call
    data,       \* the names bound by the call's keyword arguments
    idx,        \* the line being executed
    results,    \* the results of the lines executed so far
    buffer,     \* self.gp_proc's bytes read from the pty and not yet consumed
    command,    \* the line being sent, placeholders substituted
    chans,      \* the outbound data channels made by the call
    io,         \* what the call did to the subprocess, in order
    ret,        \* how the call ended
    entry,      \* the session when the call was entered
    cmdtext,    \* the command text passed to the call
    ctor_args,  \* the arguments the session was constructed with
    plotrev,    \* the revision of the plot classes
    world,      \* the Plot and Multiplot objects: their fields and sessions
    lastop      \* the last operation on a plot object and what it did

sess == <<gp_proc, running, tempdir, dirExists, rmtrees, cause, buffer>>
call == <<pc, script, lines, data, idx, results, command, chans, io, ret,
          entry, cmdtext>>
\* What the session's operations leave as it is: the constructor's arguments
\* and the objects of the plot classes.
other == <<ctor_args, plotrev, world, lastop>>
vars == <<rev, gp_proc, running, tempdir, dirExists, rmtrees, cause,
          pc, script, lines, data, idx, results, buffer, command, chans, io,
          ret, entry, cmdtext, ctor_args, plotrev, world, lastop>>

Str(s) == [type |-> "str", str |-> s]
None == [type |-> "None", str |-> <<>>]

Outcome(kind, exc, val, list, warned) ==
    [kind |-> kind, exc |-> exc, type |-> val.type, str |-> val.str,
     list |-> list, warned |-> warned]
NoCall == Outcome("none", "", None, <<>>, FALSE)
Raise(exc) == Outcome("raise", exc, None, <<>>, FALSE)
Return(val) == Outcome("return", "", val, <<>>, FALSE)
ReturnList(list, warned) ==
    Outcome("return", "", [type |-> "list", str |-> <<>>], list, warned)

\* An entry of io: a line sent (text), the bytes the engine printed in
\* answer (out), or a blocking read that ended in TIMEOUT, EOF or
\* KeyboardInterrupt at the read named by at.
Ev(op, at, text, out) == [op |-> op, at |-> at, text |-> text, out |-> out]

\* RawGnuplot.isalive
isalive == gp_proc # "None" /\ running

(***************************************************************************)
(* The objects of the plot classes (src/xnuplot/_plot.py and the revision  *)
(* src/xnuplot/plot.py): every Plot and every Multiplot is a list and a    *)
(* session of its own.                                                     *)
(***************************************************************************)
PlotRevisions == {"_plot.py", "plot.py"}
Plots == {"p1", "p2"}
Multis == {"m1"}
Objs == Plots \cup Multis

\* No session has been saved: the file that save() writes and load() reads
\* does not exist.
NoFile == [plot |-> "no file"]

\* The fields of the objects after their construction: empty lists,
\* autorefresh on, no refresh running (_block_refresh, in plot.py
\* _refreshing, is False), no parents, no size and no origin of their own,
\* and live sessions that wait for the prompt "gnuplot> ".
FreshWorld ==
    [items |-> [o \in Objs |-> <<>>],
     autorefresh |-> [o \in Objs |-> TRUE],
     guard |-> [o \in Objs |-> FALSE],
     parents |-> [o \in Plots |-> <<>>],
     size |-> [o \in Plots |-> "None"],
     origin |-> [o \in Plots |-> "None"],
     alive |-> [o \in Objs |-> TRUE],
     gp_prompt |-> [o \in Objs |-> "gnuplot> "],
     file |-> NoFile]

\* What an operation on a plot object did: the objects as it found them
\* (pre), the commands it sent and the refreshes it ran, in order (log), and
\* how it ended.
Op(name, obj, pre, log, exc, msg, result) ==
    [name |-> name, obj |-> obj, pre |-> pre, log |-> log, exc |-> exc,
     msg |-> msg, result |-> result]
NoOp == Op("", "", FreshWorld, <<>>, "", <<>>, <<>>)

\* The session alone: no plot object is in use.
NoPlotObjects ==
    /\ plotrev = "_plot.py"
    /\ world = FreshWorld
    /\ lastop = NoOp

\* The constructor's arguments and their defaults (persist defaults to True
\* in src/xnuplot.py, which has no tempdir and no testecho argument).
DefaultArgs(r) ==
    [command |-> "None", persist |-> r = "xnuplot.py", tempdir |-> "None",
     testecho |-> FALSE]

\* The state after a construction with the default arguments.
Init ==
    /\ rev \in Revisions
    /\ ctor_args = DefaultArgs(rev)
    /\ NoPlotObjects
    /\ gp_proc = "open"
    /\ running = TRUE
    /\ tempdir = "set"
    /\ dirExists = TRUE
    /\ rmtrees = 0
    /\ cause = ""
    /\ pc = "idle"
    /\ script = FALSE
    /\ lines = <<>>
    /\ data = {}
    /\ idx = 0
    /\ results = <<>>
    /\ buffer = <<>>
    /\ command = <<>>
    /\ chans = <<>>
    /\ io = <<>>
    /\ ret = NoCall
    /\ entry = ""
    /\ cmdtext = <<>>

(***************************************************************************)
(* Outbound data channels (_OutboundNamedPipe, _OutboundTempFile).         *)
(***************************************************************************)
\* The constructor of the channel for placeholder tok, the n-th channel of
\* the call, made for line ln.  A named pipe exists and its writer thread is
\* started (blocked in open() until a reader opens the pipe); a temporary
\* file is written.  Without a directory the pipe makes its own.
NewChannel(tok, n, ln) ==
    [mode |-> IF tok.mode = "file" THEN "file" ELSE "pipe",
     name |-> tok.name,
     n |-> n,
     line |-> ln,
     made_dir |-> tempdir = "None",
     path |-> Path(IF tok.mode = "file" THEN "file" ELSE "pipe", n, tempdir = "None"),
     exists |-> TRUE,
     writer |-> IF tok.mode = "file" THEN "none" ELSE "blocked",
     sent |-> FALSE]

\* The first placeholder (an index into phs) whose name is not bound, or
\* Len(phs) + 1.
FirstUnbound(text, phs, d) ==
    IF \E j \in 1..Len(phs) : text[phs[j]].name \notin d
    THEN CHOOSE j \in 1..Len(phs) :
            /\ text[phs[j]].name \notin d
            /\ \A k \in 1..(j - 1) : text[phs[k]].name \in d
    ELSE Len(phs) + 1

\* The channels made for the first m placeholders of a line.
Made(text, phs, m, ln) ==
    [j \in 1..m |-> NewChannel(text[phs[j]], Len(chans) + j, ln)]

\* A substitution that gives every placeholder the path of the first channel.
SubstitutedFirstPath(text, phs, made) ==
    [i \in 1..Len(text) |->
        IF \E j \in 1..Len(phs) : phs[j] = i
        THEN PathTok(made[1].mode, made[1].name, made[1].n, made[1].path)
        ELSE text[i]]

\* The command with every placeholder replaced by the quoted path of its
\* channel.
Substituted(text, phs, made) ==
    [i \in 1..Len(text) |->
        IF \E j \in 1..Len(phs) : phs[j] = i
        THEN LET j == CHOOSE j \in 1..Len(phs) : phs[j] = i
             IN PathTok(made[j].mode, made[j].name, made[j].n, made[j].path)
        ELSE text[i]]

MarkSent(made) == [j \in 1..Len(made) |-> [made[j] EXCEPT !.sent = TRUE]]

\* shutil.rmtree(self.tempdir): the channels' files in it are gone.
AfterRmtree(ch) ==
    [i \in 1..Len(ch) |->
        IF tempdir = "set" /\ ~ch[i].made_dir
        THEN [ch[i] EXCEPT !.exists = FALSE] ELSE ch[i]]

\* _OutboundTempFile.cleanup of the channels of line ln; _OutboundNamedPipe's
\* cleanup does nothing.
AfterCleanup(ch, ln) ==
    [i \in 1..Len(ch) |->
        IF ch[i].line = ln /\ ch[i].mode = "file"
        THEN [ch[i] EXCEPT !.exists = FALSE] ELSE ch[i]]

\* os.unlink in _OutboundTempFile.cleanup fails: the file is gone already.
CleanupFails(ch, ln) ==
    \E i \in 1..Len(ch) : ch[i].line = ln /\ ch[i].mode = "file" /\ ~ch[i].exists

\* _OutboundNamedPipe.run: a reader opened the pipe, the payload is written
\* (or the write fails), and the thread unlinks the path.
OutboundNamedPipe_run ==
    \E i \in 1..Len(chans) :
        /\ chans[i].mode = "pipe"
        /\ chans[i].writer = "blocked"
        /\ chans[i].sent
        /\ chans[i].exists
        /\ chans' = [chans EXCEPT ![i].writer = "done", ![i].exists = FALSE]
        /\ UNCHANGED <<rev, other, sess, pc, script, lines, data, idx, results,
                       command, io, ret, entry, cmdtext>>

(***************************************************************************)
(* src/xnuplot/gnuplot.py: RawGnuplot.                                     *)
(***************************************************************************)
\* A terminate() that releases the subprocess and forgets the directory
\* without deleting it.
TerminateKeepsDir(why) ==
    /\ cause' = IF gp_proc # "None" THEN why ELSE cause
    /\ gp_proc' = "None"
    /\ running' = IF gp_proc # "None" THEN FALSE ELSE running
    /\ tempdir' = "None"
    /\ UNCHANGED <<dirExists, rmtrees>>

\* A terminate() that deletes the directory and goes on remembering it.
TerminateKeepsTempdir(why) ==
    /\ cause' = IF gp_proc # "None" THEN why ELSE cause
    /\ gp_proc' = "None"
    /\ running' = IF gp_proc # "None" THEN FALSE ELSE running
    /\ tempdir' = tempdir
    /\ dirExists' = IF tempdir = "set" THEN FALSE ELSE dirExists
    /\ rmtrees' = IF tempdir = "set" THEN rmtrees + 1 ELSE rmtrees

\* The assignments of terminate() to the session's fields.
Terminate(why) ==
    /\ cause' = IF gp_proc # "None" THEN why ELSE cause
    /\ gp_proc' = "None"
    /\ running' = IF gp_proc # "None" THEN FALSE ELSE running
    /\ tempdir' = "None"
    /\ dirExists' = IF tempdir = "set" THEN FALSE ELSE dirExists
    /\ rmtrees' = IF tempdir = "set" THEN rmtrees + 1 ELSE rmtrees

\* The call ends: it returns or raises.
Done(outcome) == pc' = "done" /\ ret' = outcome

\* A call is entered with command text c and keyword arguments d.
Enter(c, d) ==
    /\ pc = "idle"
    /\ entry' = IF gp_proc = "None" THEN "None"
                ELSE IF running THEN "alive" ELSE "exited"
    /\ cmdtext' = c
    /\ data' = d
    /\ UNCHANGED <<rev, other, sess, results, command, chans, io>>

RawGnuplot_terminate ==
    /\ rev = "gnuplot.py"
    /\ pc = "idle"
    /\ Terminate("terminate")
    /\ chans' = AfterRmtree(chans)
    /\ UNCHANGED <<rev, other, buffer, pc, script, lines, data, idx, results, command,
                   io, ret, entry, cmdtext>>

\* close(): "Soft quitting is no different from force-quitting."
RawGnuplot_close == RawGnuplot_terminate

\* __call__, lines 155-158
RawGnuplot_call ==
    \E c \in Commands : \E d \in DataBindings(c) :
        /\ rev = "gnuplot.py"
        /\ Enter(c, d)
        /\ script' = FALSE
        /\ IF ~isalive
           THEN /\ Done(Raise("CommunicationError:exited"))
                /\ UNCHANGED <<lines, idx>>
           ELSE /\ lines' = Split(c)
                /\ idx' = 1
                /\ pc' = "line"
                /\ ret' = ret

\* _send_one_command, lines 214-216: _placeholders_substituted up to its
\* yield, then _sendline up to its blocking read.
RawGnuplot_send_one_command ==
    /\ rev = "gnuplot.py"
    /\ pc = "line"
    /\ LET text == lines[idx]
           phs == Placeholders(rev, text)
           u == FirstUnbound(text, phs, data)
       IN IF u <= Len(phs)
          THEN \* data[name] raises KeyError; the channels of the
               \* placeholders before it are made already
               /\ chans' = chans \o Made(text, phs, u - 1, idx)
               /\ Done(Raise("KeyError"))
               /\ UNCHANGED <<command, io>>
          ELSE LET made == MarkSent(Made(text, phs, Len(phs), idx))
               IN /\ chans' = chans \o made
                  /\ command' = Substituted(text, phs, made)
                  /\ io' = Append(io, Ev("sendline", "", command', <<>>))
                  /\ pc' = "echo"
                  /\ ret' = ret
    /\ UNCHANGED <<rev, other, sess, script, lines, data, idx, results, entry, cmdtext>>

\* What the engine writes to the pty in answer to a command line: the echo,
\* its line terminator, the output, and the prompt unless the engine hangs or
\* dies first.  After a quit command the engine prints no further prompt.
Replies(cmd) ==
    {e \o CRLF \o o \o p :
        e \in EchoForms, o \in Outputs,
        p \in IF QuitMatch(cmd) THEN {<<>>} ELSE {<<>>, Prompt}}

\* The event recorded for a reply: the bytes printed after the echo's line
\* terminator and before the prompt.
Recv(reply) ==
    LET rest == ExpectExact(reply, CRLF).after
    IN Ev("recv", "", <<>>,
          IF Found(rest, Prompt) THEN ExpectExact(rest, Prompt).before ELSE rest)

\* _sendline, line 210: expect_exact("\r\n"), the read that skips the echoed
\* command.  pexpect's EOF and TIMEOUT are not caught by _send_one_command
\* (lines 215-221), which handles KeyboardInterrupt alone.
RawGnuplot_sendline ==
    /\ rev = "gnuplot.py"
    /\ pc = "echo"
    /\ \/ /\ running
          /\ \E reply \in Replies(command) :
                /\ buffer' = ExpectExact(buffer \o reply, CRLF).after
                /\ io' = Append(io, Recv(reply))
          /\ pc' = "prompt"
          /\ UNCHANGED <<gp_proc, running, tempdir, dirExists, rmtrees, cause, chans, ret>>
       \/ /\ running
          /\ io' = Append(io, Ev("TIMEOUT", "echo", <<>>, <<>>))
          /\ Done(Raise("pexpect.TIMEOUT"))
          /\ UNCHANGED <<sess, chans>>
       \/ /\ running' = FALSE
          /\ io' = Append(io, Ev("EOF", "echo", <<>>, <<>>))
          /\ Done(Raise("pexpect.EOF"))
          /\ UNCHANGED <<gp_proc, tempdir, dirExists, rmtrees, cause, buffer, chans>>
       \/ /\ running
          /\ io' = Append(io, Ev("KeyboardInterrupt", "echo", <<>>, <<>>))
          /\ Terminate("interrupt")
          /\ chans' = AfterRmtree(chans)
          /\ Done(Raise("CommunicationError:killed"))
          /\ UNCHANGED buffer
    /\ UNCHANGED <<rev, other, script, lines, data, idx, results, command, entry, cmdtext>>

\* _send_one_command, lines 225-239, and the rest of __call__'s loop, lines
\* 160-165.  Leaving the with block runs the cleanup of the line's channels
\* unless an exception leaves it.
RawGnuplot_expect_prompt ==
    /\ rev = "gnuplot.py"
    /\ pc = "prompt"
    /\ IF Found(buffer, Prompt)
       THEN LET result == Replace(ExpectExact(buffer, Prompt).before)
                rs == IF result # <<>> THEN Append(results, Str(result))
                      ELSE results
            IN /\ buffer' = ExpectExact(buffer, Prompt).after
               /\ chans' = AfterCleanup(chans, idx)
               /\ results' = rs
               /\ IF idx < Len(lines)
                  THEN idx' = idx + 1 /\ pc' = "line" /\ ret' = ret
                  ELSE idx' = idx /\ Done(Return(Str(Join(rs))))
               /\ UNCHANGED <<gp_proc, running, tempdir, dirExists, rmtrees, cause>>
               /\ io' = io
       ELSE \E f \in {"TIMEOUT", "EOF"} :
               /\ f = "TIMEOUT" => running
               /\ io' = Append(io, Ev(f, "prompt", <<>>, <<>>))
               /\ Terminate(IF f = "TIMEOUT" THEN "timeout"
                            ELSE IF QuitMatch(command) THEN "quit" ELSE "eof")
               /\ chans' = AfterRmtree(chans)
               /\ Done(IF f = "TIMEOUT" THEN Raise("CommunicationError:timeout")
                       ELSE IF ~QuitMatch(command)
                       THEN Raise("CommunicationError:died")
                       ELSE IF CleanupFails(chans', idx) THEN Raise("OSError")
                       ELSE Return(Str(Join(results))))
               /\ UNCHANGED <<buffer, results, idx>>
    /\ UNCHANGED <<rev, other, script, lines, data, command, entry, cmdtext>>

(***************************************************************************)
(* src/xnuplot.py: Gnuplot.                                                *)
(***************************************************************************)
\* Python's format % args: a format with as many conversions as arguments
\* yields a string, any other raises TypeError.
PercentFormat(conversions, args) ==
    IF conversions = args THEN "str" ELSE "TypeError"

\* Lines 119-120: the expression
\*   "content for file placeholder {{%s}} " + "not provided as keyword argument" % name
\* applies % to the second literal (no conversion, one argument) before the +.
X_UnboundPlaceholderError ==
    IF PercentFormat(0, 1) = "str" THEN "KeyError" ELSE "TypeError"

X_Gnuplot_terminate ==
    /\ rev = "xnuplot.py"
    /\ pc = "idle"
    /\ Terminate("terminate")
    /\ chans' = AfterRmtree(chans)
    /\ UNCHANGED <<rev, other, buffer, pc, script, lines, data, idx, results, command,
                   io, ret, entry, cmdtext>>

\* close(), lines 69-74: self("quit") on a live session, else terminate()
X_Gnuplot_close ==
    /\ rev = "xnuplot.py"
    /\ pc = "idle"
    /\ IF isalive
       THEN /\ Enter(<<QuitTok>>, {})
            /\ script' = FALSE
            /\ lines' = <<<<QuitTok>>>>
            /\ idx' = 1
            /\ pc' = "line"
            /\ ret' = ret
       ELSE /\ Terminate("terminate")
            /\ chans' = AfterRmtree(chans)
            /\ UNCHANGED <<rev, other, buffer, pc, script, lines, data, idx, results,
                           command, io, ret, entry, cmdtext>>

\* __call__, lines 109-115, and script(), line 177: a text with a newline is
\* a script, whose lines are sent by one __call__ each, without keyword
\* arguments.
X_Gnuplot_call ==
    \E c \in Commands : \E d \in DataBindings(c) :
        /\ rev = "xnuplot.py"
        /\ Enter(c, d)
        /\ IF \E i \in 1..Len(c) : c[i] = NewlineTok
           THEN /\ script' = TRUE
                /\ IF Len(Placeholders(rev, c)) > 0
                   THEN /\ Done(Raise("ValueError:multiline"))
                        /\ UNCHANGED <<lines, idx>>
                   ELSE /\ lines' = Split(c)
                        /\ idx' = 1
                        /\ pc' = "line"
                        /\ ret' = ret
           ELSE /\ script' = FALSE
                /\ lines' = <<c>>
                /\ idx' = 1
                /\ pc' = "line"
                /\ ret' = ret

\* __call__, lines 116-140, for one line: the placeholders are checked, the
\* pipes are made, the line is sent.
X_Gnuplot_call_line ==
    /\ rev = "xnuplot.py"
    /\ pc = "line"
    /\ LET text == lines[idx]
           phs == Placeholders(rev, text)
           names == [j \in 1..Len(phs) |-> text[phs[j]].name]
           made == Made(text, phs, Len(phs), idx)
       IN IF \E j \in 1..Len(names) : names[j] \notin data
          THEN /\ Done(Raise(X_UnboundPlaceholderError))
               /\ UNCHANGED <<command, chans, io>>
          ELSE IF Len(names) > Cardinality({names[j] : j \in 1..Len(names)})
          THEN /\ Done(Raise("ValueError:duplicate"))
               /\ UNCHANGED <<command, chans, io>>
          ELSE IF gp_proc = "None"
          THEN \* self.gp_proc.sendline: None has no attribute sendline
               /\ chans' = chans \o made
               /\ command' = Substituted(text, phs, made)
               /\ Done(Raise("AttributeError"))
               /\ UNCHANGED io
          ELSE /\ chans' = chans \o MarkSent(made)
               /\ command' = Substituted(text, phs, made)
               /\ io' = Append(io, Ev("sendline", "", command', <<>>))
               /\ pc' = IF QuitMatch(command') THEN "eof" ELSE "echo"
               /\ ret' = ret
    /\ UNCHANGED <<rev, other, sess, script, lines, data, idx, results, entry, cmdtext>>

\* The end of one line's __call__ with result r: script() goes on with the
\* next line and returns the list of all results.
X_LineDone(r, warned) ==
    IF script
    THEN /\ results' = Append(results, r)
         /\ IF idx < Len(lines)
            THEN idx' = idx + 1 /\ pc' = "line" /\ ret' = ret
            ELSE idx' = idx /\ Done(ReturnList(results', warned))
    ELSE /\ Done(Outcome("return", "", r, <<>>, warned))
         /\ UNCHANGED <<results, idx>>

\* Lines 143-149: after quit or exit, wait for the end of the stream; a
\* timeout only warns.
X_Gnuplot_expect_eof ==
    /\ rev = "xnuplot.py"
    /\ pc = "eof"
    /\ \E f \in {"EOF", "TIMEOUT"} :
          /\ f = "TIMEOUT" => running
          /\ io' = Append(io, Ev(f, "eof", <<>>, <<>>))
          /\ X_LineDone(None, f = "TIMEOUT")
    /\ Terminate("quit")
    /\ chans' = AfterRmtree(chans)
    /\ UNCHANGED <<rev, other, buffer, script, lines, data, command, entry, cmdtext>>

\* Lines 158-167: EOF or TIMEOUT in either read of the try block.
X_ReadFails ==
    /\ \E f \in {"EOF", "TIMEOUT"} :
          /\ f = "TIMEOUT" => running
          /\ io' = Append(io, Ev(f, pc, <<>>, <<>>))
          /\ Terminate(IF f = "TIMEOUT" THEN "timeout" ELSE "eof")
          /\ Done(Outcome("raise",
                          IF f = "EOF" THEN "CommunicationError:died"
                          ELSE "CommunicationError:timeout",
                          None, <<>>, f = "TIMEOUT"))
    /\ chans' = AfterRmtree(chans)
    /\ UNCHANGED <<buffer, results, idx>>

\* Line 156: expect_exact("\r\n"), the read that skips the echoed command.
X_Gnuplot_expect_echo ==
    /\ rev = "xnuplot.py"
    /\ pc = "echo"
    /\ \/ /\ running
          /\ \E reply \in Replies(command) :
                /\ buffer' = ExpectExact(buffer \o reply, CRLF).after
                /\ io' = Append(io, Recv(reply))
          /\ pc' = "prompt"
          /\ UNCHANGED <<gp_proc, running, tempdir, dirExists, rmtrees, cause, chans,
                         ret, results, idx>>
       \/ X_ReadFails
    /\ UNCHANGED <<rev, other, script, lines, data, command, entry, cmdtext>>

\* Lines 157 and 168-169: expect_exact(self.gp_prompt); the result is what
\* was read before the prompt.
X_Gnuplot_expect_prompt ==
    /\ rev = "xnuplot.py"
    /\ pc = "prompt"
    /\ IF Found(buffer, Prompt)
       THEN /\ buffer' = ExpectExact(buffer, Prompt).after
            /\ X_LineDone(Str(ExpectExact(buffer, Prompt).before), FALSE)
            /\ UNCHANGED <<gp_proc, running, tempdir, dirExists, rmtrees, cause,
                           chans, io>>
       ELSE X_ReadFails
    /\ UNCHANGED <<rev, other, script, lines, data, command, entry, cmdtext>>

\* The subprocess exits on its own between two calls.
ProcessDies ==
    /\ pc = "idle"
    /\ gp_proc # "None"
    /\ running
    /\ running' = FALSE
    /\ UNCHANGED <<rev, other, gp_proc, tempdir, dirExists, rmtrees, cause, buffer, call>>

\* The caller has its result (or exception) and goes on to its next
\* operation on the session.
Caller_continue ==
    /\ pc = "done"
    /\ pc' = "idle"
    /\ script' = FALSE
    /\ lines' = <<>>
    /\ data' = {}
    /\ idx' = 0
    /\ results' = <<>>
    /\ command' = <<>>
    /\ chans' = <<>>
    /\ io' = <<>>
    /\ ret' = NoCall
    /\ entry' = ""
    /\ cmdtext' = <<>>
    /\ UNCHANGED <<rev, other, sess>>

Next ==
    \/ RawGnuplot_call
    \/ RawGnuplot_send_one_command
    \/ RawGnuplot_sendline
    \/ RawGnuplot_expect_prompt
    \/ RawGnuplot_terminate
    \/ RawGnuplot_close
    \/ X_Gnuplot_call
    \/ X_Gnuplot_call_line
    \/ X_Gnuplot_expect_eof
    \/ X_Gnuplot_expect_echo
    \/ X_Gnuplot_expect_prompt
    \/ X_Gnuplot_terminate
    \/ X_Gnuplot_close
    \/ OutboundNamedPipe_run
    \/ ProcessDies
    \/ Caller_continue

Spec == Init /\ [][Next]_vars

(***************************************************************************)
(* Construction: RawGnuplot.__init__ and, in src/xnuplot.py,               *)
(* Gnuplot.__init__.  The constructor runs from pc = "new" to pc = "idle"  *)
(* (the session is handed to the caller) or to pc = "failed" (an exception *)
(* leaves the constructor).                                                *)
(***************************************************************************)
SessionArgs(r) ==
    IF r = "xnuplot.py"
    THEN [command : {"None", "given"}, persist : BOOLEAN, tempdir : {"None"},
          testecho : {FALSE}]
    ELSE [command : {"None", "given"}, persist : BOOLEAN,
          tempdir : {"None", "given"}, testecho : BOOLEAN]

\* The command line that is spawned: the argument, else (gnuplot.py, lines
\* 70-74) $XNUPLOT_GNUPLOT when it is set (env), else the default; with
\* -persist appended on request.
SpawnCommand(r, a, env) ==
    (IF a.command = "given" THEN <<"command">>
     ELSE IF r = "gnuplot.py" /\ env THEN <<"$XNUPLOT_GNUPLOT">>
     ELSE IF r = "gnuplot.py" THEN <<"gnuplot">>
     ELSE <<"/usr/bin/env gnuplot">>)
        \o (IF a.persist THEN <<" -persist">> ELSE <<>>)

ConstructInit ==
    /\ rev \in Revisions
    /\ ctor_args \in SessionArgs(rev)
    /\ NoPlotObjects
    /\ gp_proc = "unset"
    /\ running = FALSE
    /\ tempdir = "unset"
    /\ dirExists = FALSE
    /\ rmtrees = 0
    /\ cause = ""
    /\ pc = "new"
    /\ script = FALSE
    /\ lines = <<>>
    /\ data = {}
    /\ idx = 0
    /\ results = <<>>
    /\ buffer = <<>>
    /\ command = <<>>
    /\ chans = <<>>
    /\ io = <<>>
    /\ ret = NoCall
    /\ entry = ""
    /\ cmdtext = <<>>

\* The constructor fails: exc leaves it.
Fail(exc) == pc' = "failed" /\ ret' = Raise(exc)

\* Lines 67-83 (gnuplot.py) and 33-45 (xnuplot.py): the working directory is
\* made and the subprocess is spawned; when the spawn fails the (empty)
\* directory is removed with os.rmdir and the error is raised: as it is in
\* gnuplot.py, as SpawnError in xnuplot.py.
Gnuplot_init_spawn ==
    /\ pc = "new"
    /\ tempdir' = "set"
    /\ \E env \in BOOLEAN : command' = SpawnCommand(rev, ctor_args, env)
    /\ \/ /\ gp_proc' = "open"
          /\ running' = TRUE
          /\ dirExists' = TRUE
          /\ io' = Append(io, Ev("spawn", "", command', <<>>))
          /\ pc' = "handshake"
          /\ ret' = ret
       \/ /\ dirExists' = FALSE
          /\ io' = Append(io, Ev("ExceptionPexpect", "spawn", command', <<>>))
          /\ Fail(IF rev = "xnuplot.py" THEN "SpawnError:spawn"
                  ELSE "pexpect.ExceptionPexpect")
          /\ UNCHANGED <<gp_proc, running>>
    /\ UNCHANGED <<rev, other, rmtrees, cause, script, lines, data, idx, results,
                   buffer, chans, entry, cmdtext>>

\* gnuplot.py lines 85-98: the first prompt is awaited; when the read fails
\* in any way, the finally clause calls terminate().
RawGnuplot_init_expect_prompt ==
    /\ rev = "gnuplot.py"
    /\ pc = "handshake"
    /\ \/ /\ io' = Append(io, Ev("recv", "handshake", <<>>, Prompt))
          /\ pc' = IF ctor_args.testecho THEN "testecho" ELSE "idle"
          /\ UNCHANGED <<gp_proc, running, tempdir, dirExists, rmtrees, cause, ret>>
       \/ \E f \in {"EOF", "TIMEOUT", "KeyboardInterrupt"} :
             /\ io' = Append(io, Ev(f, "handshake", <<>>, <<>>))
             /\ Terminate(IF f = "EOF" THEN "eof"
                          ELSE IF f = "TIMEOUT" THEN "timeout" ELSE "interrupt")
             /\ Fail(IF f = "EOF" THEN "CommunicationError:died before prompt"
                     ELSE IF f = "TIMEOUT" THEN "CommunicationError:timeout"
                     ELSE "KeyboardInterrupt")
    /\ UNCHANGED <<rev, other, script, lines, data, idx, results, buffer,
                   command, chans, entry, cmdtext>>

\* The self-test sends a line of this many terminal widths (line 294).
TestWidths == 3
\* What readline may insert into the echo of a line at the right margin of
\* the terminal.
Breaks == {<<" ", "CR">>, <<" ", "BS">>, <<"CR", "LF">>}
\* _test_readline_echo, lines 293-312, for the echo of the test line with the
\* given insertions, one at each margin reached: none is the exact echo.
TestWrappedEcho(breaks) ==
    IF breaks = <<>> THEN "ok"
    ELSE IF \E i \in 2..Len(breaks) : breaks[i] # breaks[1]
    THEN "CommunicationError:echo"
    ELSE IF breaks[1] = CRLF THEN "CommunicationError:echo"
    ELSE "ok"

\* gnuplot.py lines 97-98 and 260-312: the self-test of the echo.  Its
\* failures are raised outside the try block of lines 86-95: nothing is
\* terminated.
RawGnuplot_test_readline_echo ==
    /\ rev = "gnuplot.py"
    /\ pc = "testecho"
    /\ \/ \E exact \in BOOLEAN : \E breaks \in Seqs(Breaks, TestWidths) :
             LET r == IF ~exact THEN "CommunicationError:echo"
                      ELSE TestWrappedEcho(breaks)
             IN /\ io' = Append(io, Ev("recv", "testecho", <<>>,
                                        IF exact THEN <<"#">> \o CRLF ELSE <<"#">>))
                /\ IF r = "ok" THEN pc' = "idle" /\ ret' = ret ELSE Fail(r)
                /\ UNCHANGED running
       \/ \E f \in {"EOF", "TIMEOUT"} :
             /\ io' = Append(io, Ev(f, "testecho", <<>>, <<>>))
             /\ running' = (f = "TIMEOUT")
             /\ Fail(IF f = "EOF" THEN "pexpect.EOF" ELSE "pexpect.TIMEOUT")
    /\ UNCHANGED <<rev, other, gp_proc, tempdir, dirExists, rmtrees, cause,
                   script, lines, data, idx, results, buffer, command, chans,
                   entry, cmdtext>>

\* xnuplot.py lines 46-60: the first prompt is awaited; EOF and TIMEOUT close
\* the subprocess, every failure removes the directory with os.rmdir.
X_Gnuplot_init_expect_prompt ==
    /\ rev = "xnuplot.py"
    /\ pc = "handshake"
    /\ \/ /\ io' = Append(io, Ev("recv", "handshake", <<>>, Prompt))
          /\ pc' = "idle"
          /\ UNCHANGED <<gp_proc, running, dirExists, ret>>
       \/ \E f \in {"EOF", "TIMEOUT"} :
             /\ io' = Append(io, Ev(f, "handshake", <<>>, <<>>))
             /\ gp_proc' = "closed"
             /\ running' = FALSE
             /\ dirExists' = FALSE
             /\ Fail(IF f = "EOF" THEN "SpawnError:died before prompt"
                     ELSE "SpawnError:timeout")
       \/ /\ io' = Append(io, Ev("KeyboardInterrupt", "handshake", <<>>, <<>>))
          /\ dirExists' = FALSE
          /\ Fail("KeyboardInterrupt")
          /\ UNCHANGED <<gp_proc, running>>
    /\ UNCHANGED <<rev, other, tempdir, rmtrees, cause, script, lines, data, idx,
                   results, buffer, command, chans, entry, cmdtext>>

\* The life of a session from its construction to its end, without the
\* commands of the caller: the constructor, terminate(), close() (which in
\* src/xnuplot.py sends quit to a live subprocess) and the subprocess's own
\* death.
LifeNext ==
    \/ Gnuplot_init_spawn
    \/ RawGnuplot_init_expect_prompt
    \/ RawGnuplot_test_readline_echo
    \/ X_Gnuplot_init_expect_prompt
    \/ RawGnuplot_terminate
    \/ RawGnuplot_close
    \/ X_Gnuplot_terminate
    \/ X_Gnuplot_close
    \/ X_Gnuplot_call_line
    \/ X_Gnuplot_expect_eof
    \/ ProcessDies
    \/ Caller_continue

Life == ConstructInit /\ [][LifeNext]_vars

(***************************************************************************)
(* The plot classes.  An operation on a plot object runs to its end in the *)
(* caller's thread, and what it calls (the refresh, the session's          *)
(* __call__, the refreshes that call starts in turn) runs inside it; so an *)
(* operation is one action, computed by the operators below as the code    *)
(* computes it.  They pass on a record m: the objects (m.w), the commands  *)
(* sent and the refreshes run so far (m.log), the pending exception        *)
(* (m.exc, "" for none) with its message, the value returned last          *)
(* (m.result), the number of commands sent (m.k), and what the engines     *)
(* and their ptys will do to the commands (m.faults).  A statement that    *)
(* follows a raise is skipped: every operator returns m as it is while an  *)
(* exception is pending, and Finally ends what a finally clause holds.     *)
(***************************************************************************)
\* The bounds: the length of the list of p1 and of the list of a multiplot,
\* the place of a failure among the commands of an operation, and how many
\* of the objects' flags differ at a time from those of a fresh object.
MaxItems == 2
MaxChildren == 2
MaxFaultAt == 2
MaxOff == 1

\* A plot item is a string, a PlotData (k = "data") or the tuple of the
\* arguments a PlotData is made of (k = "tuple": the data, and the options
\* and the mode, "None" when the tuple is too short to have them or has
\* None there).
StrItem == [k |-> "str", v |-> "sin(x)", mode |-> ""]
DataItem == [k |-> "data", v |-> "d1", mode |-> "pipe", options |-> "None"]
PlotItems == {StrItem, DataItem}

\* PlotData.__init__ for a mode that is None, "pipe" or "file": no mode is
\* the mode "pipe".
PlotData(d, options, mode) ==
    [k |-> "data", v |-> d,
     mode |-> IF mode = "None" THEN "pipe" ELSE mode, options |-> options]

\* if not isinstance(data, PlotData): data = PlotData(*data)
AsPlotData(item) ==
    IF item.k = "data" THEN item
    ELSE PlotData(item.v, item.options, item.mode)

\* What an engine prints in answer to a command that fails: the line with
\* the caret under the place of the error and the message, or a warning.
CaretError == <<" ", "^", "LF", " ", "e", "r", "r", "LF">>
WarningText == <<"w", "a", "r", "n", "LF">>
ErrOutputs == {CaretError, WarningText}
\* What it prints in answer to a query (save '-', show, print).
Answer == <<"v">>
Queries == {"save '-'", "show origin", "show size", "print"}

\* One command at most goes wrong in an operation (the at-th): the engine
\* prints out (kind "err"), the read of the prompt ends in TIMEOUT or EOF
\* (kind "dead"), or the read of the echo ends in TIMEOUT (kind "echo").
NoFault == [at |-> 0, kind |-> "ok", out |-> <<>>]
Faults ==
    {NoFault}
        \cup [at : 1..MaxFaultAt, kind : {"err"}, out : {CaretError}]
        \cup [at : {1}, kind : {"err"}, out : {WarningText}]
        \cup [at : 1..MaxFaultAt, kind : {"dead"}, out : {<<>>}]
        \cup [at : {1}, kind : {"echo"}, out : {<<>>}]

Machine(w, faults) ==
    [w |-> w, log |-> <<>>, k |-> 0, exc |-> "", msg |-> <<>>,
     result |-> <<>>, faults |-> faults]

\* An entry of the log: a command c sent to the session of o with its plot
\* items and its argument, and what the engine printed (e = "cmd"); the
\* start and the end of a refresh of o (e = "refresh", "end"); a warning.
Evt(e, o, c, its, arg, out) ==
    [e |-> e, o |-> o, c |-> c, its |-> its, arg |-> arg, out |-> out]
Note(e, o) == Evt(e, o, "", <<>>, <<>>, <<>>)
Logged(m, ev) == IF m.exc # "" THEN m ELSE [m EXCEPT !.log = Append(@, ev)]
Throw(m, exc, msg) ==
    IF m.exc # "" THEN m ELSE [m EXCEPT !.exc = exc, !.msg = msg]
Returning(m, val) == IF m.exc # "" THEN m ELSE [m EXCEPT !.result = val]
Assign(m, field, o, val) ==
    IF m.exc # "" THEN m ELSE [m EXCEPT !.w[field][o] = val]

\* try: ... finally: ...; m is the machine when the try block is left,
\* InFinally(m) the machine the finally clause starts from (the pending
\* exception set aside) and done the machine after the clause.  An
\* exception raised in the finally clause replaces the pending one.
InFinally(m) == [m EXCEPT !.exc = "", !.msg = <<>>]
Finally(m, done) ==
    IF m.exc = "" \/ done.exc # "" THEN done
    ELSE [done EXCEPT !.exc = m.exc, !.msg = m.msg]

\* str.strip() and str.lstrip("^").
RECURSIVE LStripOf(_, _)
LStripOf(s, chars) ==
    IF s # <<>> /\ Head(s) \in chars THEN LStripOf(Tail(s), chars) ELSE s
RECURSIVE RStripOf(_, _)
RStripOf(s, chars) ==
    IF s # <<>> /\ s[Len(s)] \in chars
    THEN RStripOf(SubSeq(s, 1, Len(s) - 1), chars) ELSE s
Whitespace == {" ", "LF", "CR", "TAB"}
strip(s) == RStripOf(LStripOf(s, Whitespace), Whitespace)

\* RawGnuplot.__call__ for a command of one line, from the caller's side
\* (the steps inside it are the actions RawGnuplot_call to
\* RawGnuplot_expect_prompt above): a session that is not alive raises
\* CommunicationError; else the command is sent, and the call returns what
\* the engine printed, or raises CommunicationError after terminate() when
\* the read of the prompt fails, or lets pexpect.TIMEOUT through when the
\* read of the echo fails.
RawGnuplot_call_summary(m, o, c, its, arg) ==
    IF m.exc # "" THEN m
    ELSE IF ~m.w.alive[o]
    THEN Throw(m, "CommunicationError", <<"exited">>)
    ELSE LET k == m.k + 1
             f == IF m.faults.at = k THEN m.faults ELSE NoFault
             out == IF f.kind = "err" THEN f.out
                    ELSE IF f.kind = "ok" /\ c \in Queries THEN Answer
                    ELSE <<>>
             sent == [m EXCEPT !.k = k,
                               !.log = Append(@, Evt("cmd", o, c, its, arg,
                                                     out))]
         IN CASE f.kind = "dead" ->
                    [sent EXCEPT !.w.alive[o] = FALSE,
                                 !.exc = "CommunicationError",
                                 !.msg = <<"timeout">>]
              [] f.kind = "echo" -> [sent EXCEPT !.exc = "pexpect.TIMEOUT"]
              [] OTHER -> [sent EXCEPT !.result = out]

\* A call of a method of a plot object: self.f(...) or obj.f(...) runs the
\* method of that name of the object's class, in the revision at hand
\* (Invoke is defined after the methods).
RECURSIVE Invoke(_, _, _)

\* A variant that names every placeholder after the first place.
Rendered_one_name(its) ==
    [i \in 1..Len(its) |->
        IF its[i].k = "str" THEN [k |-> "str", v |-> its[i].v, name |-> -1,
                                  mode |-> "", options |-> ""]
        ELSE LET pd == AsPlotData(its[i])
             IN [k |-> "data", v |-> pd.v, name |-> 0,
                 mode |-> IF pd.mode = "file" THEN "file" ELSE "pipe",
                 options |-> IF pd.options = "None" THEN ""
                             ELSE pd.options]]

\* Gnuplot._datafilespec and the loop of Gnuplot._plot: a string goes into
\* the command as it is, the i-th item (from 0) that is data as the
\* placeholder item00i with its mode, followed by its options if it has
\* any, and bound to the data.
Rendered(its) ==
    [i \in 1..Len(its) |->
        IF its[i].k = "str" THEN [k |-> "str", v |-> its[i].v, name |-> -1,
                                  mode |-> "", options |-> ""]
        ELSE LET pd == AsPlotData(its[i])
             IN [k |-> "data", v |-> pd.v, name |-> i - 1,
                 mode |-> IF pd.mode = "file" THEN "file" ELSE "pipe",
                 options |-> IF pd.options = "None" THEN ""
                             ELSE pd.options]]

\* The message of GnuplotError: the output without the caret that points
\* at the error and without the white space around it.
ErrorMessage(out) == strip(LStripOf(strip(out), {"^"}))

\* Gnuplot._plot with the items its: nothing is sent for no items; else
\* one command, and output that is not empty is raised as GnuplotError.
Gnuplot_plot(m, o, cmd, its) ==
    IF m.exc # "" THEN m
    ELSE IF its = <<>> THEN Returning(m, <<>>)
    ELSE LET called == Invoke(m, "__call__", <<o, cmd, Rendered(its), <<>>>>)
         IN IF called.exc = "" /\ Len(called.result) > 0
            THEN Throw(called, "GnuplotError", ErrorMessage(called.result))
            ELSE called

\* Gnuplot.__call__ of src/xnuplot.py for a command of one line, from the
\* caller's side (the steps inside it are the actions X_Gnuplot_call to
\* X_Gnuplot_expect_prompt above): on a terminated session self.gp_proc is
\* None and sendline raises AttributeError; a read of the echo or of the
\* prompt that fails terminates the session and raises CommunicationError.
X_Gnuplot_call_summary(m, o, c, its, arg) ==
    IF m.exc # "" THEN m
    ELSE IF ~m.w.alive[o] THEN Throw(m, "AttributeError", <<>>)
    ELSE LET k == m.k + 1
             f == IF m.faults.at = k THEN m.faults ELSE NoFault
             out == IF f.kind = "err" THEN f.out
                    ELSE IF f.kind = "ok" /\ c \in Queries THEN Answer
                    ELSE <<>>
             sent == [m EXCEPT !.k = k,
                               !.log = Append(@, Evt("cmd", o, c, its, arg,
                                                     out))]
         IN IF f.kind \in {"dead", "echo"}
            THEN [sent EXCEPT !.w.alive[o] = FALSE,
                              !.exc = "CommunicationError",
                              !.msg = <<"timeout">>]
            ELSE [sent EXCEPT !.result = out]

\* Gnuplot._plot of src/xnuplot.py: the i-th item (from 0) that is data
\* goes into the command as the placeholder pipei; the command is sent for
\* any number of items, and what the engine prints is dropped.
X_Gnuplot_plot(m, o, cmd, its) ==
    Returning(Invoke(m, "__call__", <<o, cmd, Rendered(its), <<>>>>), <<>>)

\* Gnuplot.source: load {{script}} with the script bound.
Gnuplot_source(m, o, arg) ==
    Invoke(m, "__call__", <<o, "load {{script}}", <<>>, arg>>)

(***************************************************************************)
(* src/xnuplot/_plot.py                                                    *)
(***************************************************************************)
\* A variant that refreshes whether autorefresh is on or off.
ObservedList_always_refresh(m, o) ==
    IF m.exc = "" THEN Invoke(m, "refresh", <<o>>) ELSE m

\* _ObservedList._perform_autorefresh
ObservedList_perform_autorefresh(m, o) ==
    IF m.exc = "" /\ m.w.autorefresh[o] THEN Invoke(m, "refresh", <<o>>)
    ELSE m

\* for parent in self.parents: parent._perform_autorefresh()
RECURSIVE ParentsAutorefresh(_, _, _)
ParentsAutorefresh(m, ps, i) ==
    IF m.exc # "" \/ i > Len(ps) THEN m
    ELSE ParentsAutorefresh(Invoke(m, "_perform_autorefresh", <<ps[i]>>),
                            ps, i + 1)

\* Plot._perform_autorefresh
Plot_perform_autorefresh(m, o) ==
    IF m.exc # "" \/ m.w.guard[o] THEN m
    ELSE ParentsAutorefresh(ObservedList_perform_autorefresh(m, o),
                            m.w.parents[o], 1)

\* _ObservedList._with_autorefresh(Gnuplot.__call__): the call, then
\* self._perform_autorefresh(), and the call's result is returned.  (The
\* call leaves the list as it is, so notify_change is not called.)
BasePlot_call(m, o, c, its, arg) ==
    LET called == RawGnuplot_call_summary(m, o, c, its, arg)
    IN Returning(Invoke(called, "_perform_autorefresh", <<o>>),
                 called.result)

\* _BasePlot.environment_script: save '-' with the refresh blocked.
BasePlot_environment_script(m, o) ==
    IF m.exc # "" THEN m
    ELSE LET blocking_refresh == m.w.guard[o]
             saved == Invoke(Assign(m, "guard", o, TRUE), "__call__",
                             <<o, "save '-'", <<>>, <<>>>>)
         IN Finally(saved, Assign(InFinally(saved), "guard", o,
                                  blocking_refresh))

\* A variant that plots the list as it was before the operation.
Plot_perform_refresh_plots_old(m, o) ==
    IF m.exc # "" \/ ~m.w.alive[o] THEN m
    ELSE Invoke(Logged(m, Note("refresh", o)), "_plot",
                <<o, "plot", world.items[o]>>)

\* A variant that plots the list when it is empty too.
Plot_perform_refresh_plots_empty(m, o) ==
    IF m.exc # "" \/ ~m.w.alive[o] THEN m
    ELSE Invoke(Logged(m, Note("refresh", o)), "_plot",
                <<o, "plot", m.w.items[o]>>)

\* Plot._perform_refresh
Plot_perform_refresh(m, o) ==
    IF m.exc # "" \/ ~m.w.alive[o] THEN m
    ELSE LET begun == Logged(m, Note("refresh", o))
             plotted ==
                 IF Len(m.w.items[o]) > 0
                 THEN Invoke(begun, "_plot", <<o, "plot", m.w.items[o]>>)
                 ELSE Invoke(begun, "__call__", <<o, "clear", <<>>, <<>>>>)
         IN Finally(plotted, Logged(InFinally(plotted), Note("end", o)))

\* The message of show origin and of show size is parsed as two numbers
\* separated by a comma; one that has no comma makes the unpacking of
\* message.split(",") raise ValueError.
Parsed(m) ==
    IF m.exc = "" /\ m.result # Answer THEN Throw(m, "ValueError", <<>>)
    ELSE m

\* Multiplot._get_origin_and_size
Multiplot_get_origin_and_size(m, o) ==
    LET gotOrigin ==
            Parsed(Invoke(m, "__call__", <<o, "show origin", <<>>, <<>>>>))
    IN Parsed(Invoke(gotOrigin, "__call__", <<o, "show size", <<>>, <<>>>>))

\* Multiplot._set_origin_and_size
Multiplot_set_origin_and_size(m, o, arg) ==
    Invoke(Invoke(m, "__call__", <<o, "set origin", <<>>, arg>>),
           "__call__", <<o, "set size", <<>>, arg>>)

\* The body of the loop of Multiplot._perform_refresh for the child ch,
\* statement by statement from the last to the first; a statement that
\* raises ends the body.
Multiplot_child_plot(m, o, ch) ==
    IF m.exc # "" THEN m
    ELSE Invoke(m, "_plot", <<o, "plot", m.w.items[ch]>>)
Multiplot_child_origin(m, o, ch) ==
    IF m.exc # "" THEN m
    ELSE Multiplot_child_plot(
             IF m.w.origin[ch] # "None"
             THEN Invoke(m, "__call__", <<o, "set origin", <<>>, <<ch>>>>)
             ELSE m, o, ch)
Multiplot_child_size(m, o, ch) ==
    IF m.exc # "" THEN m
    ELSE Multiplot_child_origin(
             IF m.w.size[ch] # "None"
             THEN Invoke(m, "__call__", <<o, "set size", <<>>, <<ch>>>>)
             ELSE m, o, ch)
Multiplot_child_reset(m, o, ch) ==
    IF m.exc # "" THEN m
    ELSE Multiplot_child_size(
             Multiplot_set_origin_and_size(m, o, <<"saved">>), o, ch)
Multiplot_child_source(m, o, ch) ==
    IF m.exc # "" THEN m
    ELSE Multiplot_child_reset(Invoke(m, "source", <<o, <<ch>>>>), o, ch)
Multiplot_child_script(m, o, ch) ==
    IF m.exc # "" THEN m
    ELSE Multiplot_child_source(Invoke(m, "environment_script", <<ch>>),
                                o, ch)
Multiplot_plot_child(m, o, ch) ==
    IF m.exc # "" \/ Len(m.w.items[ch]) = 0 THEN m
    ELSE Multiplot_child_script(Multiplot_get_origin_and_size(m, o), o, ch)

RECURSIVE Multiplot_children(_, _, _)
Multiplot_children(m, o, i) ==
    IF m.exc # "" \/ i > Len(m.w.items[o]) THEN m
    ELSE Multiplot_children(Multiplot_plot_child(m, o, m.w.items[o][i]),
                            o, i + 1)

\* Multiplot._perform_refresh
Multiplot_perform_refresh(m, o) ==
    IF m.exc # "" \/ ~m.w.alive[o] THEN m
    ELSE LET begun == Logged(m, Note("refresh", o))
             saved_prompt == m.w.gp_prompt[o]
             saved_script == Invoke(begun, "environment_script", <<o>>)
             entered == Invoke(Assign(saved_script, "gp_prompt", o,
                                      "multiplot> "),
                               "__call__", <<o, "set multiplot", <<>>, <<>>>>)
             plots == Multiplot_children(entered, o, 1)
             shown ==
                 IF entered.exc # "" THEN entered
                 ELSE Finally(plots,
                          Invoke(
                            Invoke(Assign(InFinally(plots), "gp_prompt", o,
                                          saved_prompt),
                                   "__call__",
                                   <<o, "unset multiplot", <<>>, <<>>>>),
                            "source", <<o, <<o>>>>))
             done == IF Len(m.w.items[o]) > 0 THEN shown
                     ELSE Invoke(begun, "__call__",
                                 <<o, "clear", <<>>, <<>>>>)
         IN Finally(done, Logged(InFinally(done), Note("end", o)))

\* How many refreshes of o have begun and not ended in a log.
InFlight(log, o) ==
    Cardinality({i \in DOMAIN log : log[i].e = "refresh" /\ log[i].o = o})
        - Cardinality({i \in DOMAIN log : log[i].e = "end" /\ log[i].o = o})

\* A variant that lets a refresh start while one refresh is running, and
\* returns only when two are.
ObservedList_refresh_reentrant(m, o) ==
    IF m.exc # "" \/ InFlight(m.log, o) >= 2 THEN m
    ELSE LET refreshed == Invoke(Assign(m, "guard", o, TRUE),
                                 "_perform_refresh", <<o>>)
         IN Finally(refreshed,
                    Assign(InFinally(refreshed), "guard", o, FALSE))

\* A variant that releases the guard only when the refresh returns.
ObservedList_refresh_no_finally(m, o) ==
    IF m.exc # "" \/ m.w.guard[o] THEN m
    ELSE Assign(Invoke(Assign(m, "guard", o, TRUE), "_perform_refresh",
                       <<o>>),
                "guard", o, FALSE)

\* _ObservedList.refresh
ObservedList_refresh(m, o) ==
    IF m.exc # "" \/ m.w.guard[o] THEN m
    ELSE LET refreshed == Invoke(Assign(m, "guard", o, TRUE),
                                 "_perform_refresh", <<o>>)
         IN Finally(refreshed,
                    Assign(InFinally(refreshed), "guard", o, FALSE))

(***************************************************************************)
(* src/xnuplot/plot.py                                                     *)
(***************************************************************************)
\* for parent in self.parents: if parent.autorefresh: parent.refresh()
RECURSIVE P_ParentsRefresh(_, _, _)
P_ParentsRefresh(m, ps, i) ==
    IF m.exc # "" \/ i > Len(ps) THEN m
    ELSE P_ParentsRefresh(IF m.w.autorefresh[ps[i]]
                          THEN Invoke(m, "refresh", <<ps[i]>>) ELSE m,
                          ps, i + 1)

\* Plot.refresh
P_Plot_refresh(m, o) ==
    LET m1 == P_ParentsRefresh(m, m.w.parents[o], 1)
    IN IF m1.exc # "" \/ m1.w.guard[o] \/ ~m1.w.alive[o] THEN m1
       ELSE LET begun == Logged(Assign(m1, "guard", o, TRUE),
                                Note("refresh", o))
                plotted ==
                    IF Len(m1.w.items[o]) > 0
                    THEN Invoke(begun, "_plot",
                                <<o, "plot", m1.w.items[o]>>)
                    ELSE Invoke(begun, "__call__",
                                <<o, "clear", <<>>, <<>>>>)
            IN Finally(plotted,
                       Logged(Assign(InFinally(plotted), "guard", o, FALSE),
                              Note("end", o)))

\* _ObservedList._with_autorefresh(_Gnuplot.__call__): the call, then
\* self.refresh() if self.autorefresh, and the call's result is returned.
P_BasePlot_call(m, o, c, its, arg) ==
    LET called == RawGnuplot_call_summary(m, o, c, its, arg)
    IN Returning(IF called.exc = "" /\ called.w.autorefresh[o]
                 THEN Invoke(called, "refresh", <<o>>) ELSE called,
                 called.result)

\* _BasePlot.environment_script
P_BasePlot_environment_script(m, o) ==
    Invoke(m, "__call__", <<o, "save '-'", <<>>, <<>>>>)

\* Multiplot._save_origin_and_size
P_Multiplot_save_origin_and_size(m, o) ==
    LET gotOrigin ==
            Parsed(Invoke(m, "__call__", <<o, "show origin", <<>>, <<>>>>))
    IN Parsed(Invoke(gotOrigin, "__call__", <<o, "show size", <<>>, <<>>>>))

\* A variant that restores the origin and leaves the size as it is.
P_Multiplot_restore_origin_only(m, o) ==
    Invoke(m, "__call__", <<o, "set origin", <<>>, <<"saved">>>>)

\* Multiplot._restore_origin_and_size
P_Multiplot_restore_origin_and_size(m, o) ==
    Invoke(Invoke(m, "__call__", <<o, "set origin", <<>>, <<"saved">>>>),
           "__call__", <<o, "set size", <<>>, <<"saved">>>>)

\* The body of the loop of Multiplot.refresh for the child ch, statement
\* by statement from the last to the first; a statement that raises ends
\* the body.
P_Multiplot_child_plot(m, o, ch) ==
    IF m.exc # "" THEN m
    ELSE Invoke(m, "_plot", <<o, "plot", m.w.items[ch]>>)
P_Multiplot_child_origin(m, o, ch) ==
    IF m.exc # "" THEN m
    ELSE P_Multiplot_child_plot(
             IF m.w.origin[ch] # "None"
             THEN Invoke(m, "__call__", <<o, "set origin", <<>>, <<ch>>>>)
             ELSE m, o, ch)
P_Multiplot_child_size(m, o, ch) ==
    IF m.exc # "" THEN m
    ELSE P_Multiplot_child_origin(
             IF m.w.size[ch] # "None"
             THEN Invoke(m, "__call__", <<o, "set size", <<>>, <<ch>>>>)
             ELSE m, o, ch)
P_Multiplot_child_source(m, o, ch) ==
    IF m.exc # "" THEN m
    ELSE P_Multiplot_child_size(
             Invoke(m, "source", <<o, <<ch, "no origin, no size">>>>),
             o, ch)
P_Multiplot_plot_child(m, o, ch) ==
    IF m.exc # "" THEN m
    ELSE IF Len(m.w.items[ch]) = 0 THEN Logged(m, Note("warn", o))
    ELSE P_Multiplot_child_source(Invoke(m, "environment_script", <<ch>>),
                                  o, ch)

RECURSIVE P_Multiplot_children(_, _, _)
P_Multiplot_children(m, o, i) ==
    IF m.exc # "" \/ i > Len(m.w.items[o]) THEN m
    ELSE P_Multiplot_children(
             P_Multiplot_plot_child(m, o, m.w.items[o][i]), o, i + 1)

\* Multiplot.refresh
P_Multiplot_refresh(m, o) ==
    IF m.exc # "" \/ m.w.guard[o] \/ ~m.w.alive[o] THEN m
    ELSE LET begun == Logged(Assign(m, "guard", o, TRUE),
                             Note("refresh", o))
             saved == P_Multiplot_save_origin_and_size(begun, o)
             saved_prompt == m.w.gp_prompt[o]
             entered == Invoke(Assign(saved, "gp_prompt", o, "multiplot> "),
                               "__call__", <<o, "set multiplot", <<>>, <<>>>>)
             plots == P_Multiplot_children(entered, o, 1)
             shown ==
                 IF entered.exc # "" THEN entered
                 ELSE Finally(plots,
                          P_Multiplot_restore_origin_and_size(
                            Invoke(Assign(InFinally(plots), "gp_prompt", o,
                                          saved_prompt),
                                   "__call__",
                                   <<o, "unset multiplot", <<>>, <<>>>>),
                            o))
             done == IF Len(m.w.items[o]) > 0 THEN shown
                     ELSE Invoke(begun, "__call__",
                                 <<o, "clear", <<>>, <<>>>>)
         IN Finally(done,
                    Logged(Assign(InFinally(done), "guard", o, FALSE),
                           Note("end", o)))

\* Plot._fit: the commands of a fit, via being a tuple of names or a
\* mapping from names to start values (one name, "a"); the engine's answer
\* to an assignment must be empty.
FitCommands ==
    <<"FIT_LIMIT =", "FIT_MAXITER =", "FIT_START_LAMBDA =",
      "FIT_LAMBDA_FACTOR =", "set fit logfile", "fit", "unset fit",
      "print", "print">>

RECURSIVE CallEach(_, _, _, _)
CallEach(m, o, cmds, i) ==
    IF m.exc # "" \/ i > Len(cmds) THEN m
    ELSE CallEach(Invoke(m, "__call__", <<o, cmds[i], <<>>, <<>>>>),
                  o, cmds, i + 1)

Plot_fit_commands(m, o, via) ==
    LET assigned ==
            IF via = "mapping"
            THEN LET called == Invoke(m, "__call__",
                                      <<o, "a =", <<>>, <<>>>>)
                 IN IF called.exc = "" /\ Len(called.result) > 0
                    THEN Throw(called, "GnuplotError", <<>>)
                    ELSE called
            ELSE m
    IN Returning(CallEach(assigned, o, FitCommands, 1), <<"fitted">>)

\* Plot.fit: the refresh is blocked while _fit runs; a bare except
\* swallows whatever _fit raises (fit then returns None) and skips the
\* refresh that else ends the fit.
Plot_fit(m, o, via) ==
    LET saved == IF plotrev = "_plot.py" THEN m.w.guard[o] ELSE FALSE
        body == Plot_fit_commands(Assign(m, "guard", o, TRUE), o, via)
        unblocked == [body EXCEPT !.exc = "", !.msg = <<>>,
                                  !.w.guard[o] = saved]
    IN IF body.exc # "" THEN Returning(unblocked, <<"None">>)
       ELSE IF plotrev = "_plot.py"
       THEN Returning(Invoke(unblocked, "_perform_autorefresh", <<o>>),
                      body.result)
       ELSE Returning(IF unblocked.w.autorefresh[o]
                      THEN Invoke(unblocked, "refresh", <<o>>)
                      ELSE unblocked,
                      body.result)

Invoke(m, f, a) ==
    CASE f = "__call__" ->
            IF plotrev = "_plot.py"
            THEN BasePlot_call(m, a[1], a[2], a[3], a[4])
            ELSE IF plotrev = "plot.py"
            THEN P_BasePlot_call(m, a[1], a[2], a[3], a[4])
            ELSE X_Gnuplot_call_summary(m, a[1], a[2], a[3], a[4])
      [] f = "_plot" ->
            IF rev = "xnuplot.py" THEN X_Gnuplot_plot(m, a[1], a[2], a[3])
            ELSE Gnuplot_plot(m, a[1], a[2], a[3])
      [] f = "source" -> Gnuplot_source(m, a[1], a[2])
      [] f = "environment_script" ->
            IF plotrev = "_plot.py" THEN BasePlot_environment_script(m, a[1])
            ELSE P_BasePlot_environment_script(m, a[1])
      [] f = "refresh" ->
            IF plotrev = "_plot.py" THEN ObservedList_refresh(m, a[1])
            ELSE IF a[1] \in Plots THEN P_Plot_refresh(m, a[1])
            ELSE P_Multiplot_refresh(m, a[1])
      [] f = "_perform_refresh" ->
            IF a[1] \in Plots THEN Plot_perform_refresh(m, a[1])
            ELSE Multiplot_perform_refresh(m, a[1])
      [] f = "_perform_autorefresh" ->
            IF a[1] \in Plots THEN Plot_perform_autorefresh(m, a[1])
            ELSE ObservedList_perform_autorefresh(m, a[1])
      [] f = "fit" -> Plot_fit(m, a[1], a[2])

\* What call_and_refresh does after the method it wraps:
\* self._perform_autorefresh(); in plot.py self.refresh() if
\* self.autorefresh.
autorefresh_after(m, o) ==
    IF plotrev = "_plot.py" THEN Invoke(m, "_perform_autorefresh", <<o>>)
    ELSE IF m.w.autorefresh[o] THEN Invoke(m, "refresh", <<o>>)
    ELSE m

(***************************************************************************)
(* The operations of the caller on the plot objects.                       *)
(***************************************************************************)
Count(x, s) == Cardinality({i \in DOMAIN s : s[i] = x})
RECURSIVE Without(_, _)
Without(s, x) ==
    IF s = <<>> THEN <<>>
    ELSE IF Head(s) = x THEN Without(Tail(s), x)
    ELSE <<Head(s)>> \o Without(Tail(s), x)
RECURSIVE Times(_, _)
Times(x, n) == IF n = 0 THEN <<>> ELSE <<x>> \o Times(x, n - 1)

\* Multiplot.notify_change: a plot that left the list loses the multiplot
\* as a parent, and a plot that came into it gets it appended once for
\* every place it has in the list.
Multiplot_notify_change(w, o, old, new) ==
    [w EXCEPT !.parents = [p \in Plots |->
        LET kept == IF Count(p, old) > 0 /\ Count(p, new) = 0
                    THEN Without(w.parents[p], o) ELSE w.parents[p]
        IN IF Count(p, old) = 0 THEN kept \o Times(o, Count(p, new))
           ELSE kept]]

\* call_and_refresh around a method of list that makes the list new:
\* notify_change if there is one and the list changed, then the
\* autorefresh.
call_and_refresh(o, new, faults) ==
    LET old == world.items[o]
        changed == [world EXCEPT !.items[o] = new]
        notified == IF o \in Multis /\ new # old
                    THEN Multiplot_notify_change(changed, o, old, new)
                    ELSE changed
    IN autorefresh_after(Machine(notified, faults), o)

\* The caller is between two operations; and the objects are lists (in
\* src/xnuplot.py, which has no plot classes, they are sessions only).
Between == lastop.name = ""
BetweenLists == Between /\ plotrev \in PlotRevisions

\* How many flags of the objects differ from those of a fresh object.
Off(w) ==
    Cardinality({o \in Objs : ~w.autorefresh[o]})
        + Cardinality({o \in Objs : ~w.alive[o]})
        + Cardinality({o \in Plots : w.size[o] # "None"})
        + Cardinality({o \in Plots : w.origin[o] # "None"})

Finish(name, o, m) ==
    /\ Off(m.w) <= MaxOff
    /\ world' = m.w
    /\ lastop' = Op(name, o, world, m.log, m.exc, m.msg, m.result)
    /\ UNCHANGED <<rev, ctor_args, plotrev, sess, call>>

\* p1 is a list of up to MaxItems plot items, p2 of one string at most,
\* and a multiplot a list of up to MaxChildren plots.
Members(o) ==
    IF o = "p1" THEN PlotItems ELSE IF o = "p2" THEN {StrItem} ELSE Plots
Capacity(o) ==
    IF o = "p1" THEN MaxItems ELSE IF o = "p2" THEN 1 ELSE MaxChildren

\* list.append
List_append ==
    \E o \in Objs : \E x \in Members(o), f \in Faults :
        /\ BetweenLists
        /\ Len(world.items[o]) < Capacity(o)
        /\ Finish("append", o,
                  call_and_refresh(o, Append(world.items[o], x), f))

\* list.pop, of the last element
List_pop ==
    \E o \in Objs, f \in Faults :
        /\ BetweenLists
        /\ world.items[o] # <<>>
        /\ Finish("pop", o,
                  call_and_refresh(o, SubSeq(world.items[o], 1,
                                             Len(world.items[o]) - 1), f))

\* list.remove, of the first element equal to x
List_remove ==
    \E o \in Objs : \E i \in 1..Capacity(o), f \in Faults :
        /\ BetweenLists
        /\ i \in DOMAIN world.items[o]
        /\ \A j \in 1..(i - 1) : world.items[o][j] # world.items[o][i]
        /\ Finish("remove", o,
                  call_and_refresh(o, SubSeq(world.items[o], 1, i - 1)
                      \o SubSeq(world.items[o], i + 1, Len(world.items[o])),
                      f))

\* del self[i:j]: list.__delslice__
List_delslice ==
    \E o \in Objs : \E i \in 0..Capacity(o), j \in 0..Capacity(o),
                      f \in Faults :
        /\ BetweenLists
        /\ i < j /\ j <= Len(world.items[o])
        /\ Finish("delslice", o,
                  call_and_refresh(o, SubSeq(world.items[o], 1, i)
                      \o SubSeq(world.items[o], j + 1, Len(world.items[o])),
                      f))

\* _ObservedList.clear: self[:] = []
ObservedList_clear ==
    \E o \in Objs, f \in Faults :
        /\ BetweenLists
        /\ Finish("clear", o, call_and_refresh(o, <<>>, f))

\* _ObservedList.keep: self[:] = [self[i] for i in indices], for no index
\* and for one index
ObservedList_keep ==
    \E o \in Objs : \E i \in 0..Capacity(o), f \in Faults :
        /\ BetweenLists
        /\ i <= Len(world.items[o])
        /\ Finish("keep", o,
                  call_and_refresh(o, IF i = 0 THEN <<>>
                                      ELSE <<world.items[o][i]>>, f))

\* obj.autorefresh = b
Set_autorefresh ==
    \E o \in Objs, b \in BOOLEAN :
        /\ BetweenLists
        /\ world.autorefresh[o] # b
        /\ Finish("autorefresh", o,
                  Machine([world EXCEPT !.autorefresh[o] = b], NoFault))

\* Plot.size and Plot.origin, set by the caller: the setters are wrapped by
\* _with_autorefresh.
Plot_set_size ==
    \E o \in Plots, v \in {"None", "own"}, f \in Faults :
        /\ BetweenLists
        /\ world.size[o] # v
        /\ Finish("size", o,
                  autorefresh_after(
                      Machine([world EXCEPT !.size[o] = v], f), o))

Plot_set_origin ==
    \E o \in Plots, v \in {"None", "own"}, f \in Faults :
        /\ BetweenLists
        /\ world.origin[o] # v
        /\ Finish("origin", o,
                  autorefresh_after(
                      Machine([world EXCEPT !.origin[o] = v], f), o))

\* obj.refresh()
Refresh ==
    \E o \in Objs, f \in Faults :
        /\ BetweenLists
        /\ Finish("refresh", o, Invoke(Machine(world, f), "refresh", <<o>>))

\* obj.plot(*items) and obj.replot(*items) (obj.splot(*items) differs in
\* the name of the command only), with no item and with one
Gnuplot_plot_items ==
    \E o \in Objs, cmd \in {"plot", "replot"},
       its \in {<<>>, <<DataItem>>}, f \in Faults :
        /\ Between
        /\ Finish(cmd, o,
                  Invoke(Machine(world, f), "_plot", <<o, cmd, its>>))

\* plot.fit(data, expr, via)
Plot_fit_data ==
    \E o \in Plots, via \in {"names", "mapping"}, f \in Faults :
        /\ BetweenLists
        /\ Finish("fit", o, Invoke(Machine(world, f), "fit", <<o, via>>))

\* obj.terminate() and obj.close(): the session of the object is
\* terminated (RawGnuplot_terminate, RawGnuplot_close).
Session_terminate ==
    \E o \in Objs :
        /\ Between
        /\ world.alive[o]
        /\ Finish("terminate", o,
                  Machine([world EXCEPT !.alive[o] = FALSE], NoFault))

\* The caller goes on to its next operation.
Caller_next ==
    /\ ~Between
    /\ lastop' = NoOp
    /\ UNCHANGED <<rev, ctor_args, plotrev, world, sess, call>>

\* Plot objects after their construction, on sessions of
\* src/xnuplot/gnuplot.py that no other caller uses; and, plotrev being
\* "none", sessions of src/xnuplot.py.
PlotInit ==
    /\ plotrev \in PlotRevisions \cup {"none"}
    /\ rev = (IF plotrev = "none" THEN "xnuplot.py" ELSE "gnuplot.py")
    /\ ctor_args = DefaultArgs(rev)
    /\ gp_proc = "open"
    /\ running = TRUE
    /\ tempdir = "set"
    /\ dirExists = TRUE
    /\ rmtrees = 0
    /\ cause = ""
    /\ pc = "idle"
    /\ script = FALSE
    /\ lines = <<>>
    /\ data = {}
    /\ idx = 0
    /\ results = <<>>
    /\ buffer = <<>>
    /\ command = <<>>
    /\ chans = <<>>
    /\ io = <<>>
    /\ ret = NoCall
    /\ entry = ""
    /\ cmdtext = <<>>
    /\ world = FreshWorld
    /\ lastop = NoOp

PlotNext ==
    \/ List_append
    \/ List_pop
    \/ List_remove
    \/ List_delslice
    \/ ObservedList_clear
    \/ ObservedList_keep
    \/ Set_autorefresh
    \/ Plot_set_size
    \/ Plot_set_origin
    \/ Refresh
    \/ Gnuplot_plot_items
    \/ Plot_fit_data
    \/ Session_terminate
    \/ Caller_next

Plotting == PlotInit /\ [][PlotNext]_vars

(***************************************************************************)
(* The refresh of a multiplot when the engine rejects one of its commands, *)
(* whichever it is: the children are put into the multiplot, given a size  *)
(* or an origin of their own, and the multiplot is refreshed.              *)
(***************************************************************************)
\* The command of a refresh that the engine may answer with an error is one
\* of its first MaxErrorAt.
MaxErrorAt == 14
EngineErrors == [at : 1..MaxErrorAt, kind : {"err"}, out : {CaretError}]

\* multiplot.refresh(), the engine rejecting one command
Refresh_with_error ==
    \E o \in Multis, f \in EngineErrors :
        /\ BetweenLists
        /\ world.items[o] # <<>>
        /\ Finish("refresh", o, Invoke(Machine(world, f), "refresh", <<o>>))

LayoutNext ==
    \/ List_append
    \/ Plot_set_size
    \/ Plot_set_origin
    \/ Refresh_with_error
    \/ Caller_next

Layout == PlotInit /\ [][LayoutNext]_vars

(***************************************************************************)
(* Saved sessions: _BasePlot.save writes the record of a plot to a file,   *)
(* and load makes a new plot of the record it reads from the file.  The    *)
(* plot that is saved is p1; load makes the plot p2, or the multiplot m1   *)
(* with p2 in it, and what an earlier load made is no longer in use.       *)
(***************************************************************************)
MAGIC == "xnuplot-saved-session"
PLOT_FILE_VERSION == 0
LOADABLE_FILE_VERSION == 1

\* raise Name(...): the name is looked up when the statement runs, and a
\* name that the module neither defines nor imports raises NameError.
\* _plot.py and plot.py define FileFormatError.
ModuleNames ==
    {"FileFormatError", "GnuplotError", "TypeError", "ValueError",
     "KeyError", "AssertionError", "RuntimeError"}
RaiseNamed(m, name) ==
    IF name \in ModuleNames THEN Throw(m, name, <<>>)
    ELSE Throw(m, "NameError", <<name>>)

\* (item.data, item.options, item.mode)
Triple(pd) ==
    [k |-> "tuple", v |-> pd.v, mode |-> pd.mode, options |-> pd.options]

\* The items of Plot._data_dict: a string as it is, a PlotData or a tuple
\* as the triple of the PlotData it is or makes.
SavedItemsOf(its) ==
    [i \in 1..Len(its) |->
        IF its[i].k = "str" THEN its[i] ELSE Triple(AsPlotData(its[i]))]

\* The dictionary of Plot._data_dict, env being the machine after
\* self.environment_script(): a key the dictionary does not have is
\* "missing".
DataDict(env, o, items) ==
    Returning(env,
              [version |-> PLOT_FILE_VERSION, plot |-> "plot",
               items |-> items, script |-> env.result,
               size |-> IF env.w.size[o] # "None" THEN env.w.size[o]
                        ELSE "missing",
               origin |-> IF env.w.origin[o] # "None" THEN env.w.origin[o]
                          ELSE "missing",
               magic |-> "missing"])

\* Plot._data_dict
Plot_data_dict(m, o) ==
    DataDict(Invoke(m, "environment_script", <<o>>), o,
             SavedItemsOf(m.w.items[o]))

\* data["magic"] = _MAGIC; pickle.dump(data, file)
Dumped(dd) ==
    IF dd.exc # "" THEN dd
    ELSE Returning([dd EXCEPT !.w.file = [dd.result EXCEPT !.magic = MAGIC]],
                   <<>>)

\* _BasePlot.save
BasePlot_save(m, o) == Dumped(Plot_data_dict(m, o))

\* A variant that makes the new object with autorefresh on, the default of
\* the classes.
Constructed_autorefresh_on(m, o) ==
    IF m.exc # "" THEN m
    ELSE [m EXCEPT !.w.items[o] = <<>>,
                   !.w.autorefresh[o] = TRUE,
                   !.w.guard[o] = FALSE,
                   !.w.alive[o] = TRUE,
                   !.w.gp_prompt[o] = "gnuplot> ",
                   !.w.parents = [p \in Plots |->
                                     IF p = o THEN <<>> ELSE @[p]],
                   !.w.size = [p \in Plots |->
                                  IF p = o THEN "None" ELSE @[p]],
                   !.w.origin = [p \in Plots |->
                                    IF p = o THEN "None" ELSE @[p]]]

\* class_(persist=persist, autorefresh=False, description=...): a new
\* object with autorefresh off.
Constructed(m, o) ==
    IF m.exc # "" THEN m
    ELSE [m EXCEPT !.w.items[o] = <<>>,
                   !.w.autorefresh[o] = FALSE,
                   !.w.guard[o] = FALSE,
                   !.w.alive[o] = TRUE,
                   !.w.gp_prompt[o] = "gnuplot> ",
                   !.w.parents = [p \in Plots |->
                                     IF p = o THEN <<>> ELSE @[p]],
                   !.w.size = [p \in Plots |->
                                  IF p = o THEN "None" ELSE @[p]],
                   !.w.origin = [p \in Plots |->
                                    IF p = o THEN "None" ELSE @[p]]]

\* plot.append(x), the plot being one of the machine's world.
Appended(m, o, x) ==
    IF m.exc # "" THEN m
    ELSE LET old == m.w.items[o]
             new == Append(old, x)
             changed == [m.w EXCEPT !.items[o] = new]
             notified == IF o \in Multis
                         THEN Multiplot_notify_change(changed, o, old, new)
                         ELSE changed
         IN autorefresh_after([m EXCEPT !.w = notified], o)

\* for item in data["items"]: plot.append(item), or
\* plot.append(PlotData(*item))
RECURSIVE LoadItems(_, _, _, _)
LoadItems(m, o, items, i) ==
    IF m.exc # "" \/ i > Len(items) THEN m
    ELSE LoadItems(Appended(m, o,
                            IF items[i].k = "str" THEN items[i]
                            ELSE PlotData(items[i].v, items[i].options,
                                          items[i].mode)),
                   o, items, i + 1)

\* if "script" in data: plot.source(data["script"])
load_script(m, rec, o) ==
    IF rec.script # "missing" THEN Invoke(m, "source", <<o, rec.script>>)
    ELSE m

\* if "size" in data: plot.size = data["size"], and the same for the
\* origin: the setters are wrapped by _with_autorefresh.
load_attribute(m, rec, o, field) ==
    IF rec[field] # "missing"
    THEN autorefresh_after(Assign(m, field, o, rec[field]), o)
    ELSE m

\* _load_plot
load_plot(m, rec, o) ==
    IF m.exc # "" THEN m
    ELSE IF rec.version > LOADABLE_FILE_VERSION
    THEN RaiseNamed(m, "FormatError")
    ELSE IF rec.plot \notin {"plot", "splot"}
    THEN RaiseNamed(m, "FormatError")
    ELSE LoadItems(
             load_attribute(
                 load_attribute(load_script(Constructed(m, o), rec, o),
                                rec, o, "size"),
                 rec, o, "origin"),
             o, rec.items, 1)

\* plot.source(data["script"])
load_multiplot_script(m, rec, o) ==
    IF rec.script = "missing" THEN Throw(m, "KeyError", <<"script">>)
    ELSE Invoke(m, "source", <<o, rec.script>>)

\* for item in data["items"]: plot.append(_load_plot(item, persist)), for
\* no subplot and for one, which becomes the plot ch.
load_subplots(m, rec, o, ch) ==
    IF rec.items = <<>> THEN m
    ELSE Appended(load_plot(m, rec.items[1], ch), o, ch)

\* _load_multiplot
load_multiplot(m, rec, o, ch) ==
    IF m.exc # "" THEN m
    ELSE IF rec.version > LOADABLE_FILE_VERSION
    THEN RaiseNamed(m, "FormatError")
    ELSE IF rec.plot # "multiplot" THEN RaiseNamed(m, "FormatError")
    ELSE load_subplots(load_multiplot_script(Constructed(m, o), rec, o),
                       rec, o, ch)

\* try: assert data["magic"] == _MAGIC; except: raise FormatError(...)
load_magic(m) ==
    IF m.w.file.magic # MAGIC THEN RaiseNamed(m, "FormatError") ELSE m

\* The plot that load makes of the record: _load_plot(data, ...) or
\* _load_multiplot(data, ...).
LoadedObject(rec) == IF rec.plot \in {"plot", "splot"} THEN "p2" ELSE "m1"
load_record(m) ==
    IF m.w.file.plot \in {"plot", "splot"}
    THEN load_plot(m, m.w.file, "p2")
    ELSE load_multiplot(m, m.w.file, "m1", "p2")

\* plot.autorefresh = autorefresh; in plot.py also p.autorefresh =
\* autorefresh for every p in a multiplot.
load_autorefresh(m, o, b) ==
    IF m.exc # "" THEN m
    ELSE [m EXCEPT !.w.autorefresh =
             [x \in Objs |->
                 IF x = o \/ (plotrev = "plot.py" /\ o \in Multis
                                /\ Count(x, m.w.items[o]) > 0)
                 THEN b ELSE @[x]]]

\* if autorefresh: plot.refresh()
load_refresh(m, o, b) == IF b THEN Invoke(m, "refresh", <<o>>) ELSE m

\* load(file, autorefresh=b)
load(m, b) ==
    Returning(load_refresh(load_autorefresh(load_record(load_magic(m)),
                                            LoadedObject(m.w.file), b),
                           LoadedObject(m.w.file), b),
              <<LoadedObject(m.w.file)>>)

\* The items the caller appends to the plot it saves: a string, a PlotData
\* without options and one with, and tuples of one element and of three.
PlotDataFile == PlotData("d2", "using 1:2", "file")
TupleOfData == [k |-> "tuple", v |-> "d3", mode |-> "None", options |-> "None"]
TupleOfThree ==
    [k |-> "tuple", v |-> "d4", mode |-> "file", options |-> "with lines"]
SavedItems == {StrItem, DataItem, PlotDataFile, TupleOfData, TupleOfThree}

\* The files another program wrote: records with and without the magic
\* tag, of the versions 0 to 2, of the plot types "plot", "multiplot" and
\* one that is neither, with no item and with one.
OneItem(p) ==
    IF p = "multiplot"
    THEN {[magic |-> "missing", version |-> v, plot |-> q,
           items |-> <<StrItem>>, script |-> Answer, size |-> "missing",
           origin |-> "missing"] : v \in {0, 2}, q \in {"plot", "pie"}}
    ELSE {Triple(DataItem)}
ForeignFiles ==
    UNION {{[magic |-> g, version |-> v, plot |-> p, items |-> its,
             script |-> Answer, size |-> "missing", origin |-> "missing"] :
            its \in {<<>>} \cup {<<x>> : x \in OneItem(p)}} :
           g \in {MAGIC, "other", "missing"}, v \in 0..2,
           p \in {"plot", "multiplot", "pie"}}

\* One command at most of a save or of a load goes wrong.
SavingFaults ==
    {NoFault} \cup [at : 1..MaxFaultAt, kind : {"err"}, out : {CaretError}]

\* The end of an operation, whatever the flags of the objects.
Complete(name, o, m) ==
    /\ world' = m.w
    /\ lastop' = Op(name, o, world, m.log, m.exc, m.msg, m.result)
    /\ UNCHANGED <<rev, ctor_args, plotrev, sess, call>>

\* p1.append(x), before anything is saved
Plot_append_item ==
    \E x \in SavedItems, f \in SavingFaults :
        /\ BetweenLists
        /\ world.file = NoFile
        /\ Len(world.items["p1"]) < MaxItems
        /\ Complete("append", "p1",
                    call_and_refresh("p1", Append(world.items["p1"], x), f))

\* p1.save(file)
Plot_save ==
    \E f \in SavingFaults :
        /\ BetweenLists
        /\ Complete("save", "p1", BasePlot_save(Machine(world, f), "p1"))

\* Another program writes the file, the caller having no plot to save.
File_written ==
    \E r \in ForeignFiles :
        /\ BetweenLists
        /\ world.items["p1"] = <<>>
        /\ world.file # r
        /\ world' = [world EXCEPT !.file = r]
        /\ UNCHANGED <<rev, ctor_args, plotrev, sess, call, lastop>>

\* What load made before is no longer in use.
Forgotten(w) ==
    [w EXCEPT !.items["p2"] = <<>>, !.items["m1"] = <<>>,
              !.parents["p2"] = <<>>]

\* load(file, autorefresh=b)
Load ==
    \E b \in BOOLEAN, f \in SavingFaults :
        /\ BetweenLists
        /\ world.file # NoFile
        /\ Complete("load", IF b THEN "on" ELSE "off",
                    load(Machine(Forgotten(world), f), b))

SavingNext ==
    \/ Plot_append_item
    \/ Plot_set_size
    \/ Plot_save
    \/ File_written
    \/ Load
    \/ Caller_next

Saving == PlotInit /\ [][SavingNext]_vars

(***************************************************************************)
(* The write of one command line, statement by statement:                  *)
(* RawGnuplot._sendline of src/xnuplot/gnuplot.py and the sendline of      *)
(* Gnuplot.__call__ of src/xnuplot.py.  Here a line is a sequence of       *)
(* characters, command is the line to write, idx the variable i of the     *)
(* loop, and io holds the writes ("send", and "sendline", which adds the   *)
(* line terminator) and the reads ("expect") in order.                     *)
(***************************************************************************)
\* Longest line and largest chunk length.
MaxLineLen == 5
MaxChunkLength == 3
LineChars == {"a", "b"}

\* The session's attribute send_chunk_length (512 in the class) beside the
\* arguments of the constructor.
Configured(r, n) ==
    [command |-> "None", persist |-> r = "xnuplot.py", tempdir |-> "None",
     testecho |-> FALSE, send_chunk_length |-> n]

\* line[start:stop], the bounds counted from 0
Slice(line, start, stop) ==
    SubSeq(line, start + 1, IF stop > Len(line) THEN Len(line) ELSE stop)

chunk_length == ctor_args.send_chunk_length
n_nonend_chunks == Len(command) \div chunk_length

\* The session is about to write a line.
SendInit ==
    /\ rev \in Revisions
    /\ \E n \in 1..MaxChunkLength : ctor_args = Configured(rev, n)
    /\ NoPlotObjects
    /\ gp_proc = "open"
    /\ running = TRUE
    /\ tempdir = "set"
    /\ dirExists = TRUE
    /\ rmtrees = 0
    /\ cause = ""
    /\ pc = "sendline"
    /\ script = FALSE
    /\ lines = <<>>
    /\ data = {}
    /\ idx = 0
    /\ results = <<>>
    /\ buffer = <<>>
    /\ command \in Seqs(LineChars, MaxLineLen)
    /\ chans = <<>>
    /\ io = <<>>
    /\ ret = NoCall
    /\ entry = "alive"
    /\ cmdtext = <<>>

\* Lines 201-204: self.gp_proc.send(line[start:stop]) for the next i
Sendline_chunk ==
    /\ rev = "gnuplot.py"
    /\ pc = "sendline"
    /\ idx < n_nonend_chunks
    /\ io' = Append(io, Ev("send", "",
                           Slice(command, idx * chunk_length,
                                 idx * chunk_length + chunk_length), <<>>))
    /\ pc' = "read"
    /\ UNCHANGED <<rev, other, sess, script, lines, data, idx, results,
                   command, chans, ret, entry, cmdtext>>

\* Lines 205-206: self.gp_proc.expect(pexpect.TIMEOUT, timeout=0) reads the
\* echo that has come and ends the iteration; it raises pexpect.EOF when the
\* engine has closed the terminal.
Sendline_read ==
    /\ rev = "gnuplot.py"
    /\ pc = "read"
    /\ \/ /\ io' = Append(io, Ev("expect", "chunk", <<>>, <<>>))
          /\ idx' = idx + 1
          /\ pc' = "sendline"
          /\ ret' = ret
       \/ /\ io' = Append(io, Ev("EOF", "chunk", <<>>, <<>>))
          /\ idx' = idx
          /\ Done(Raise("pexpect.EOF"))
    /\ UNCHANGED <<rev, other, sess, script, lines, data, results, command,
                   chans, entry, cmdtext>>

\* Lines 207-208: self.gp_proc.sendline(line[start:]) after the loop
Sendline_rest ==
    /\ rev = "gnuplot.py"
    /\ pc = "sendline"
    /\ idx = n_nonend_chunks
    /\ io' = Append(io, Ev("sendline", "",
                           Slice(command, n_nonend_chunks * chunk_length,
                                 Len(command)), <<>>))
    /\ pc' = "echo"
    /\ UNCHANGED <<rev, other, sess, script, lines, data, idx, results,
                   command, chans, ret, entry, cmdtext>>

\* Lines 209-210: self.gp_proc.expect_exact("\r\n"); and line 155 of
\* src/xnuplot.py
Sendline_echo ==
    /\ pc = "echo"
    /\ io' = Append(io, Ev("expect", "echo", <<>>, <<>>))
    /\ pc' = "sent"
    /\ UNCHANGED <<rev, other, sess, script, lines, data, idx, results,
                   command, chans, ret, entry, cmdtext>>

\* src/xnuplot.py line 140: self.gp_proc.sendline(command)
X_Sendline ==
    /\ rev = "xnuplot.py"
    /\ pc = "sendline"
    /\ io' = Append(io, Ev("sendline", "", command, <<>>))
    /\ pc' = "echo"
    /\ UNCHANGED <<rev, other, sess, script, lines, data, idx, results,
                   command, chans, ret, entry, cmdtext>>

SendNext ==
    \/ Sendline_chunk
    \/ Sendline_read
    \/ Sendline_rest
    \/ Sendline_echo
    \/ X_Sendline

Sending == SendInit /\ [][SendNext]_vars

(***************************************************************************)
(* The channels of one command line, statement by statement:               *)
(* RawGnuplot._placeholders_substituted, the constructors of the channels, *)
(* the writer threads of the named pipes and the engine that opens the     *)
(* paths the line names.  cmdtext is the line, idx the number of           *)
(* placeholders the loop is done with, and io holds the line sent and the  *)
(* opens of the engine, with what the engine found at the path.            *)
(***************************************************************************)
\* The lines: words and placeholders, every name bound.
PipeLines ==
    {c \in Commands : \A i \in 1..Len(c) : c[i].k \in {"word", "brace"}
                                              /\ c[i] # QuitTok}

PipeInit ==
    /\ rev = "gnuplot.py"
    /\ ctor_args = DefaultArgs(rev)
    /\ NoPlotObjects
    /\ gp_proc = "open"
    /\ running = TRUE
    /\ tempdir = "set"
    /\ dirExists = TRUE
    /\ rmtrees = 0
    /\ cause = ""
    /\ pc = "placeholders"
    /\ script = FALSE
    /\ lines = <<>>
    /\ data = {"a", "b"}
    /\ idx = 0
    /\ results = <<>>
    /\ buffer = <<>>
    /\ command = <<>>
    /\ chans = <<>>
    /\ io = <<>>
    /\ ret = NoCall
    /\ entry = "alive"
    /\ cmdtext \in PipeLines

\* The engine has opened the path of the n-th channel.
OpenedByEngine(n) == \E i \in DOMAIN io : io[i].op = "open" /\ io[i].at = n

\* A variant that leaves the making of the named pipe to the writer thread.
Mkfifo_left_to_thread(ch) == ch

\* os.mkfifo(self.path)
Mkfifo(ch) == [ch EXCEPT !.exists = TRUE]

\* Lines 173-178 and 487-497, 528-531: the loop takes the next placeholder
\* and calls the constructor of its channel.  That of a temporary file
\* writes the file and returns; that of a named pipe chooses the path and
\* initialises the thread, which is not started yet.
Placeholders_next ==
    /\ pc = "placeholders"
    /\ idx < Len(Placeholders(rev, cmdtext))
    /\ LET tok == cmdtext[Placeholders(rev, cmdtext)[idx + 1]]
           ch == NewChannel(tok, Len(chans) + 1, 1)
       IN IF ch.mode = "file"
          THEN /\ chans' = Append(chans, ch)
               /\ idx' = idx + 1
               /\ pc' = "placeholders"
          ELSE /\ chans' = Append(chans, [ch EXCEPT !.exists = FALSE,
                                                    !.writer = "new"])
               /\ idx' = idx
               /\ pc' = "mkfifo"
    /\ UNCHANGED <<rev, other, sess, script, lines, data, results, command, io,
                   ret, entry, cmdtext>>

\* Line 500: os.mkfifo(self.path)
OutboundNamedPipe_mkfifo ==
    /\ pc = "mkfifo"
    /\ chans' = [chans EXCEPT ![Len(chans)] = Mkfifo(@)]
    /\ pc' = "start"
    /\ UNCHANGED <<rev, other, sess, script, lines, data, idx, results, command,
                   io, ret, entry, cmdtext>>

\* Line 501: self.start(); the constructor returns, and the loop is done
\* with the placeholder (lines 179-185).
OutboundNamedPipe_start ==
    /\ pc = "start"
    /\ chans' = [chans EXCEPT ![Len(chans)].writer = "started"]
    /\ idx' = idx + 1
    /\ pc' = "placeholders"
    /\ UNCHANGED <<rev, other, sess, script, lines, data, results, command, io,
                   ret, entry, cmdtext>>

\* Line 509, in the thread: open(self.path, "wb").  The open of a named
\* pipe waits until a reader has opened it; the open of a path that does
\* not exist makes a file there.
OutboundNamedPipe_open ==
    \E i \in DOMAIN chans :
        /\ chans[i].mode = "pipe"
        /\ chans[i].writer = "started"
        /\ chans' = [chans EXCEPT
               ![i].exists = TRUE,
               ![i].writer = IF chans[i].exists /\ ~OpenedByEngine(i)
                             THEN "blocked" ELSE "writing"]
        /\ UNCHANGED <<rev, other, sess, pc, script, lines, data, idx, results,
                       command, io, ret, entry, cmdtext>>

\* Lines 510-524, in the thread: pipe.write(self.data), and in the finally
\* clause os.unlink(self.path).
OutboundNamedPipe_write ==
    \E i \in DOMAIN chans :
        /\ chans[i].mode = "pipe"
        /\ chans[i].writer = "writing"
        /\ chans' = [chans EXCEPT ![i].writer = "done", ![i].exists = FALSE]
        /\ UNCHANGED <<rev, other, sess, pc, script, lines, data, idx, results,
                       command, io, ret, entry, cmdtext>>

\* Lines 186-187 and 214-216: after the loop the substituted line is
\* yielded and sent.
Placeholders_yield ==
    /\ pc = "placeholders"
    /\ idx = Len(Placeholders(rev, cmdtext))
    /\ command' = Substituted(cmdtext, Placeholders(rev, cmdtext), chans)
    /\ chans' = MarkSent(chans)
    /\ io' = Append(io, Ev("sendline", "", command', <<>>))
    /\ pc' = "sent"
    /\ UNCHANGED <<rev, other, sess, script, lines, data, idx, results, ret,
                   entry, cmdtext>>

\* The engine runs the line it has read and opens a path the line names
\* (the io entry tells whether there was something at the path); a writer
\* that waits in its open of the named pipe goes on.
Engine_open ==
    \E i \in DOMAIN chans :
        /\ pc = "sent"
        /\ chans[i].sent
        /\ ~OpenedByEngine(i)
        /\ io' = Append(io, Ev("open", i, chans[i].path,
                               <<IF chans[i].exists THEN "found"
                                 ELSE "missing">>))
        /\ chans' = [chans EXCEPT
               ![i].writer = IF @ = "blocked" THEN "writing" ELSE @]
        /\ UNCHANGED <<rev, other, sess, pc, script, lines, data, idx, results,
                       command, ret, entry, cmdtext>>

\* Lines 188-189 and 222-226: the prompt is read, the call returns, and the
\* channels are cleaned up.
Placeholders_cleanup ==
    /\ pc = "sent"
    /\ chans' = AfterCleanup(chans, 1)
    /\ Done(Return(None))
    /\ UNCHANGED <<rev, other, sess, script, lines, data, idx, results, command,
                   io, entry, cmdtext>>

PipeNext ==
    \/ Placeholders_next
    \/ OutboundNamedPipe_mkfifo
    \/ OutboundNamedPipe_start
    \/ OutboundNamedPipe_open
    \/ OutboundNamedPipe_write
    \/ Placeholders_yield
    \/ Engine_open
    \/ Placeholders_cleanup

Piping == PipeInit /\ [][PipeNext]_vars

\* The same with the scheduling of the program: the session goes on with
\* its next statement, and a thread that can run does run.  Nothing makes
\* the engine open a path: a line may name a path the engine never reads
\* (in a comment, or after a syntax error).
PipingFair ==
    /\ Piping
    /\ WF_vars(Placeholders_next)
    /\ WF_vars(OutboundNamedPipe_mkfifo)
    /\ WF_vars(OutboundNamedPipe_start)
    /\ WF_vars(Placeholders_yield)
    /\ WF_vars(Placeholders_cleanup)
    /\ WF_vars(OutboundNamedPipe_open)
    /\ WF_vars(OutboundNamedPipe_write)

(***************************************************************************)
(* What the claims speak of.                                               *)
(***************************************************************************)
\* No byte was written to the subprocess by the call.
NothingSent == \A i \in 1..Len(io) : io[i].op # "sendline"

\* The call has ended.
Ended == pc = "done"
Failed(exc) == Ended /\ ret.kind = "raise" /\ ret.exc = exc

\* The spec's placeholder tokens of the command text, {{name}} and
\* {{mode:name}}.
Braces == {i \in 1..Len(cmdtext) : cmdtext[i].k = "brace"}
IsScript == \E i \in 1..Len(cmdtext) : cmdtext[i] = NewlineTok
ReferencesUnbound == \E i \in Braces : cmdtext[i].name \notin data
ReferencesTwice ==
    \E i, j \in Braces : i # j /\ cmdtext[i].name = cmdtext[j].name

\* The lines the call sent, in order.
Sent == SelectSeq(io, LAMBDA e : e.op = "sendline")

\* A quit-class line was sent by the call.
QuitSent == \E i \in 1..Len(io) : io[i].op = "sendline" /\ QuitMatch(io[i].text)

\* The last thing the call did to the subprocess.
Last == io[Len(io)]
ReadFailed(ops, ats) == io # <<>> /\ Last.op \in ops /\ Last.at \in ats

\* The bytes the engine printed for each line that was answered, in order.
Printed ==
    LET recvs == SelectSeq(io, LAMBDA e : e.op = "recv")
    IN [k \in 1..Len(recvs) |-> recvs[k].out]

\* C1: once the session is terminated, every later call (of a command that
\* has nothing to validate: no placeholder) fails at once with
\* CommunicationError (already terminated) and sends nothing.
C1_TerminatedSessionRejectsCalls ==
    (entry = "None" /\ Braces = {}) =>
        /\ NothingSent
        /\ Ended => ret = Raise("CommunicationError:exited")

\* C2: a timeout, or an end of stream when no quit was requested, in the
\* read that skips the echo or in the read that waits for the prompt,
\* terminates the session and makes the call fail with CommunicationError
\* (timeout or died); the session is not left alive.
C2_ReadFailureTerminates ==
    /\ (Ended /\ ReadFailed({"TIMEOUT"}, {"echo", "prompt"})) =>
            /\ Failed("CommunicationError:timeout")
            /\ gp_proc = "None" /\ ~isalive
    /\ (Ended /\ ReadFailed({"EOF"}, {"echo", "prompt"}) /\ ~QuitSent) =>
            /\ Failed("CommunicationError:died")
            /\ gp_proc = "None" /\ ~isalive

\* C3: after a quit-class command was sent (and no read timed out) the
\* session is terminated, the call returned (it raised nothing), and a later
\* call on that session fails with CommunicationError (already terminated).
C3_QuitTerminatesSession ==
    /\ (Ended /\ QuitSent /\ ~ReadFailed({"TIMEOUT"}, {"echo", "prompt", "eof"})) =>
            /\ gp_proc = "None" /\ ~isalive
            /\ ret.kind = "return"
    /\ (Ended /\ entry = "None" /\ cause = "quit") =>
            ret = Raise("CommunicationError:exited")

\* C4: when the subprocess does not end within the timeout after quit was
\* sent (as the last line of the command), the call raises nothing: it
\* warns, terminates the session and returns.
C4_QuitTimeoutIsNotFatal ==
    (Ended /\ Len(Sent) = Len(lines)
        /\ ReadFailed({"TIMEOUT"}, {"echo", "prompt", "eof"})
        /\ io[Len(io) - 1].op = "sendline" /\ QuitMatch(io[Len(io) - 1].text)) =>
        /\ ret.kind = "return"
        /\ ret.warned
        /\ gp_proc = "None"

\* C5: a command (one line, sent to a live session) that references a
\* placeholder name without a data binding fails with UnboundPlaceholder
\* (KeyError) and with no other error, and nothing is sent.
C5_UnboundPlaceholderRejected ==
    (entry = "alive" /\ ~IsScript /\ ReferencesUnbound) =>
        /\ NothingSent
        /\ Ended => ret = Raise("KeyError")

\* C6: when the call fails with UnboundPlaceholder, DuplicatePlaceholder or
\* MalformedCommand, no channel was made, nothing was sent, and the session
\* is as it was (alive, if it was).
C6_ValidationFailsBeforeIO ==
    (Failed("KeyError") \/ Failed("ValueError:duplicate")
        \/ Failed("ValueError:multiline")) =>
        /\ chans = <<>>
        /\ NothingSent
        /\ entry = "alive" => isalive /\ tempdir = "set" /\ dirExists

\* C7: a command (one line, every name bound, sent to a live session) in
\* which a placeholder name appears more than once, in any combination of
\* modes, fails with DuplicatePlaceholder and nothing is sent.
C7_DuplicatePlaceholderRejected ==
    (entry = "alive" /\ ~IsScript /\ ~ReferencesUnbound /\ ReferencesTwice) =>
        /\ NothingSent
        /\ Ended => ret = Raise("ValueError:duplicate")

\* C8: a command with a newline and a placeholder is rejected with
\* MalformedCommand; none of its lines is sent and no channel is made.
C8_ScriptWithPlaceholderRejected ==
    (entry = "alive" /\ IsScript /\ Braces # {}) =>
        /\ NothingSent
        /\ chans = <<>>
        /\ Ended => ret = Raise("ValueError:multiline")

\* The per-line outputs that are not empty, CRLF normalized.
RECURSIVE NonEmptyOutputs(_)
NonEmptyOutputs(outs) ==
    IF outs = <<>> THEN <<>>
    ELSE (IF outs[1] = <<>> THEN <<>> ELSE <<Str(Replace(outs[1]))>>)
         \o NonEmptyOutputs(Tail(outs))

\* C9: the lines of a script without placeholders are sent one at a time in
\* order, each only after the answer to the one before was read up to the
\* prompt; the result is the non-empty outputs of the lines joined by
\* newlines (the empty string when no line printed anything).
C9_ScriptLinesInOrder ==
    (entry = "alive" /\ IsScript /\ Braces = {}) =>
        /\ \A i \in 1..Len(io) :
              io[i].op = "sendline" =>
                /\ i % 2 = 1
                /\ io[i].text = Split(cmdtext)[(i + 1) \div 2]
                /\ i > 1 => io[i - 1].op = "recv"
        /\ pc = "echo" => buffer = <<>>
        /\ (Ended /\ ret.kind = "return" /\ ~QuitSent) =>
              /\ ret.type = "str"
              /\ ret.str = Join(NonEmptyOutputs(Printed))

\* C10: for a command without placeholders the output of the call is the
\* text the engine printed between the end of the echoed command and the
\* next prompt, CRLF normalized to LF.
C10_OutputIsWhatTheEnginePrinted ==
    (Ended /\ ret.kind = "return" /\ entry = "alive" /\ ~IsScript
        /\ Braces = {} /\ ~QuitSent) =>
        /\ ret.type = "str"
        /\ Len(Printed) = 1
        /\ ret.str = Replace(Printed[1])

\* A single-quoted string read back: the quotes removed, every backslash
\* escape replaced by the character it escapes.
RECURSIVE Unescape(_)
Unescape(s) ==
    IF s = <<>> THEN <<>>
    ELSE IF s[1] = "\\" /\ Len(s) >= 2
    THEN <<s[2]>> \o Unescape(SubSeq(s, 3, Len(s)))
    ELSE <<s[1]>> \o Unescape(Tail(s))
IsQuoted(q, path) ==
    /\ Len(q) >= 2
    /\ q[1] = "'" /\ q[Len(q)] = "'"
    /\ Unescape(SubSeq(q, 2, Len(q) - 1)) = path

\* The channels the call made for the line being executed.
LineChans == SelectSeq(chans, LAMBDA c : c.line = idx)
\* The line being executed was just sent and has two or more placeholders,
\* of pairwise distinct names.
SentDistinctPlaceholders ==
    /\ rev = "gnuplot.py"
    /\ pc = "echo"
    /\ LET phs == Placeholders(rev, lines[idx])
       IN /\ Len(phs) >= 2
          /\ \A j, k \in 1..Len(phs) :
                j # k => lines[idx][phs[j]].name # lines[idx][phs[k]].name

\* C11: a line with two or more distinct placeholders is sent with each
\* placeholder replaced, at its own position and in order, by the
\* single-quoted path of its own channel; the paths are pairwise distinct,
\* each channel carries the payload bound to its placeholder's name (in the
\* requested mode), and the text outside the placeholders is unchanged.
C11_PlaceholdersSubstitutedInPlace ==
    SentDistinctPlaceholders =>
        LET text == lines[idx]
            phs == Placeholders(rev, text)
            sent == Last.text
            made == LineChans
        IN /\ Last.op = "sendline"
           /\ Len(sent) = Len(text)
           /\ Len(made) = Len(phs)
           /\ \A i \in 1..Len(text) :
                 (\A j \in 1..Len(phs) : phs[j] # i) => sent[i] = text[i]
           /\ \A j \in 1..Len(phs) :
                 /\ sent[phs[j]].k = "path"
                 /\ IsQuoted(sent[phs[j]].q, made[j].path)
                 /\ made[j].name = text[phs[j]].name
                 /\ made[j].name \in data
                 /\ (made[j].mode = "file") <=> (text[phs[j]].mode = "file")
           /\ \A j, k \in 1..Len(made) : j # k => made[j].path # made[k].path
C11_Witness ==
    /\ SentDistinctPlaceholders
    /\ \E i, j \in 1..Len(lines[idx]) :
          /\ i < j
          /\ lines[idx][i] = BraceTok("file", "a")
          /\ lines[idx][j] = BraceTok("", "b")
          /\ Last.text[j].q = quote(Path("pipe", 2, FALSE))

\* The constructor failed at one of the three points an error can leave it
\* before the session is ready: the spawn, the end of the stream before the
\* first prompt, the timeout of the read of the first prompt.
ConstructFailed(op) ==
    /\ pc = "failed"
    /\ io # <<>>
    /\ Last.op = op
    /\ Last.at \in {"spawn", "handshake"}

TerminateOrClose ==
    \/ RawGnuplot_terminate
    \/ RawGnuplot_close
    \/ X_Gnuplot_terminate
    \/ X_Gnuplot_close
\* The subprocess handle and the working directory are released.
Released ==
    /\ gp_proc = "None"
    /\ ~running
    /\ tempdir = "None"
    /\ ~dirExists
\* shutil.rmtree would raise: the directory it is given is not there.
RmtreeRaises == tempdir = "set" /\ ~dirExists

\* C13: terminate() and close() are idempotent.  Wherever they can be
\* called they raise nothing (the directory to delete is there; the quit
\* that close() of src/xnuplot.py sends to a live subprocess returns); the
\* call that ends releases the subprocess handle and the working
\* directory; and on a terminated session either of them changes nothing.
C13_TerminateAndCloseIdempotent ==
    /\ [](pc = "idle" => ~RmtreeRaises)
    /\ [][(TerminateOrClose /\ pc' = "idle") => Released']_vars
    /\ []((Ended /\ cmdtext = <<QuitTok>>) => (ret.kind = "return" /\ Released))
    /\ [][(TerminateOrClose /\ gp_proc = "None") =>
            UNCHANGED <<gp_proc, running, tempdir, dirExists, rmtrees, cause,
                        buffer, pc, ret, chans, io>>]_vars
C13_Witness ==
    /\ pc = "idle"
    /\ Released
    /\ rmtrees = 1
    /\ cause \in {"terminate", "quit"}

Mutations == {"append", "pop", "remove", "delslice", "clear", "keep"}
PlotCommands == {"plot", "splot", "replot"}

\* The commands an operation sent, in order; those sent to the session of o.
IsCmd(ev) == ev.e = "cmd"
CommandsSent == SelectSeq(lastop.log, IsCmd)
CommandsTo(o) == SelectSeq(lastop.log, LAMBDA ev : ev.e = "cmd" /\ ev.o = o)
PlotCommandsTo(o) ==
    SelectSeq(lastop.log,
              LAMBDA ev : ev.e = "cmd" /\ ev.o = o /\ ev.c \in PlotCommands)

\* The last operation was op on an object of the set objs.
Did(ops, objs) == lastop.name \in ops /\ lastop.obj \in objs

\* C15: every operation on a Plot or a Multiplot whose session is
\* terminated (a change of the list with autorefresh on, refresh(), a
\* plot() or replot() with or without items) raises CommunicationError;
\* none returns as if nothing were wrong.
C15_TerminatedCollectionRejectsOperations ==
    (/\ Did(Mutations \cup {"refresh"} \cup PlotCommands, Objs)
     /\ ~lastop.pre.alive[lastop.obj]
     /\ lastop.name \in Mutations => lastop.pre.autorefresh[lastop.obj])
        => lastop.exc = "CommunicationError"

\* The commands cmds are one command: a plot, on the session of o, of the
\* items of o in the order of the list.
OnePlotOf(cmds, o) ==
    /\ Len(cmds) = 1
    /\ cmds[1].o = o
    /\ cmds[1].c = "plot"
    /\ cmds[1].its = Rendered(world.items[o])

\* C16: appending an item to a Plot that is in no multiplot, with
\* autorefresh on, sends one command, a plot of the list that ends with the
\* item; with autorefresh off it sends none; setting autorefresh sends
\* none; and refresh() sends one command, a plot of all the items in the
\* order of the list.  In src/xnuplot/_plot.py a Plot that is in a
\* multiplot is sent one plot command too when autorefresh is on, and none
\* when it is off.
C16_AppendPlotsOnceWhenAutorefreshing ==
    LET o == lastop.obj
        alone == lastop.pre.parents[o] = <<>>
    IN /\ (Did({"append"}, Plots) /\ lastop.pre.alive[o]) =>
            /\ world.items[o] # <<>>
            /\ (lastop.pre.autorefresh[o] /\ alone)
                    => OnePlotOf(CommandsSent, o)
            /\ (~lastop.pre.autorefresh[o] /\ alone) => CommandsSent = <<>>
            /\ (lastop.pre.autorefresh[o] /\ plotrev = "_plot.py")
                    => OnePlotOf(PlotCommandsTo(o), o)
            /\ (~lastop.pre.autorefresh[o] /\ plotrev = "_plot.py")
                    => PlotCommandsTo(o) = <<>>
       /\ Did({"autorefresh"}, Objs) => CommandsSent = <<>>
       /\ (/\ Did({"refresh"}, Plots)
           /\ lastop.pre.alive[o]
           /\ alone
           /\ world.items[o] # <<>>) => OnePlotOf(CommandsSent, o)

\* A refresh() of p1, which is in no multiplot and holds two items: the one
\* command plots both.
C16_Witness ==
    /\ Did({"refresh"}, {"p1"})
    /\ lastop.pre.parents["p1"] = <<>>
    /\ world.autorefresh["p1"]
    /\ world.items["p1"] = <<StrItem, DataItem>>
    /\ OnePlotOf(CommandsSent, "p1")
    /\ lastop.exc = ""

\* C17: a change of the list that leaves a Plot or a Multiplot with
\* autorefresh on empty sends its session exactly one command, clear; and
\* no operation on a Plot or a Multiplot sends a plot command without
\* items.  (In src/xnuplot/plot.py the multiplots of a Plot are refreshed
\* before the Plot, and the clear is sent if that raises nothing.)
C17_EmptiedCollectionIsCleared ==
    LET o == lastop.obj
    IN /\ (/\ Did(Mutations, Objs)
           /\ world.items[o] = <<>>
           /\ lastop.pre.autorefresh[o]
           /\ lastop.pre.alive[o]
           /\ plotrev = "_plot.py" \/ lastop.exc = "") =>
                /\ Len(CommandsTo(o)) = 1
                /\ CommandsTo(o)[1].c = "clear"
       /\ plotrev \in PlotRevisions =>
            \A i \in DOMAIN CommandsSent :
                CommandsSent[i].c \in PlotCommands
                    => CommandsSent[i].its # <<>>

\* del m1[0:2] empties a multiplot of two plots: one clear.
C17_Witness ==
    /\ Did({"delslice"}, {"m1"})
    /\ Len(lastop.pre.items["m1"]) = 2
    /\ world.items["m1"] = <<>>
    /\ Len(CommandsSent) = 1
    /\ CommandsSent[1].c = "clear"
    /\ CommandsSent[1].o = "m1"

\* The plot commands the engine answered with output; every command was
\* answered as it should be.
IsFailedPlot(ev) ==
    ev.e = "cmd" /\ ev.c \in PlotCommands /\ ev.out # <<>>
FailedPlots == SelectSeq(lastop.log, IsFailedPlot)
AnsweredAsExpected ==
    \A i \in DOMAIN CommandsSent :
        CommandsSent[i].out
            = (IF CommandsSent[i].c \in Queries THEN Answer ELSE <<>>)

\* C18: a plot command that the engine answers with output raises
\* GnuplotError with that output less the caret and the white space around
\* it, and only such a command does; when every command is answered as it
\* should be nothing is raised.  After a GnuplotError the session of the
\* command is alive and no refresh is left blocked, so that the next
\* change of the list refreshes again.  (Left aside: Plot.fit, which
\* swallows what its commands raise, and a CommunicationError raised by the
\* autorefresh that follows the command, on the terminated session of a
\* plot of the multiplot.)
C18_PlotOutputIsRaisedAsEngineError ==
    lastop.name \notin {"", "fit"} =>
        /\ (FailedPlots # <<>> /\ lastop.exc # "CommunicationError") =>
                /\ lastop.exc = "GnuplotError"
                /\ lastop.msg = ErrorMessage(FailedPlots[1].out)
                /\ lastop.msg # <<>>
                /\ "^" \notin {lastop.msg[i] : i \in DOMAIN lastop.msg}
                /\ world.alive[FailedPlots[1].o]
                /\ \A o \in Objs : ~world.guard[o]
                /\ world.autorefresh = lastop.pre.autorefresh
        /\ lastop.exc = "GnuplotError" => FailedPlots # <<>>
        /\ (AnsweredAsExpected
                /\ lastop.exc \notin {"CommunicationError", "pexpect.TIMEOUT",
                                      "AttributeError"})
                => lastop.exc = ""

\* The commands of Plot._fit; where in the log of the last operation they
\* are, and where a refresh of an object begins.
IsFitCommand(ev) ==
    /\ ev.e = "cmd"
    /\ ev.c \in {FitCommands[i] : i \in DOMAIN FitCommands} \cup {"a ="}
FitCommandsAt == {i \in DOMAIN lastop.log : IsFitCommand(lastop.log[i])}
RefreshesAt(objs) ==
    {i \in DOMAIN lastop.log :
        lastop.log[i].e = "refresh" /\ lastop.log[i].o \in objs}

\* C19: fit() on a Plot with autorefresh on begins no refresh, of the Plot
\* or of a multiplot that holds it, before the last of its commands is
\* sent; and a fit that returns the fitted values has by then refreshed the
\* Plot exactly once.
C19_FitRefreshesOnceAtTheEnd ==
    LET o == lastop.obj
    IN (/\ Did({"fit"}, Plots)
        /\ lastop.pre.alive[o]
        /\ lastop.pre.autorefresh[o]) =>
            /\ \A i \in RefreshesAt(Objs), j \in FitCommandsAt : j < i
            /\ lastop.result = <<"fitted">>
                    => Cardinality(RefreshesAt({o})) = 1

\* The plots of the multiplot o that hold items, in the order of the list;
\* the warnings a refresh of o gave; a command that replays or places the
\* plot ch (its settings sourced, its size or its origin set).
NonEmptyChildren(o) ==
    SelectSeq(world.items[o], LAMBDA ch : world.items[ch] # <<>>)
WarningsOf(o) ==
    SelectSeq(lastop.log, LAMBDA ev : ev.e = "warn" /\ ev.o = o)
Replays(ev, ch) ==
    ev.e = "cmd" /\ ev.arg # <<>> /\ ev.arg[1] = ch

\* C20: a refresh() of a Multiplot that raises nothing sends the session of
\* the Multiplot one plot command for each of its plots that holds items,
\* in the order of the list, each with the items of that plot; for a plot
\* without items it sends no command that replays or places it and gives one
\* warning.
C20_MultiplotPlotsNonEmptyChildren ==
    LET o == lastop.obj
        kept == NonEmptyChildren(o)
        sent == PlotCommandsTo(o)
    IN (/\ Did({"refresh"}, Multis)
        /\ lastop.pre.alive[o]
        /\ lastop.exc = "") =>
            /\ Len(sent) = Len(kept)
            /\ \A i \in DOMAIN sent :
                    /\ sent[i].c = "plot"
                    /\ sent[i].its = Rendered(world.items[kept[i]])
            /\ \A i \in DOMAIN world.items[o] :
                    world.items[world.items[o][i]] = <<>> =>
                        \A j \in DOMAIN lastop.log :
                            ~Replays(lastop.log[j], world.items[o][i])
            /\ Len(WarningsOf(o)) = Len(world.items[o]) - Len(kept)

(***************************************************************************)
(* The layout of the engine of a multiplot.  The engine is not part of the *)
(* sources: what its commands do to its origin, its size and its aspect    *)
(* ratio is gnuplot's, and the texts it prints carry six significant       *)
(* digits.  A number is counted in units of 1/Unit.                        *)
(***************************************************************************)
Unit == 100000000
RECURSIVE Digits(_)
Digits(n) == IF n < 10 THEN 1 ELSE 1 + Digits(n \div 10)
RECURSIVE Pow10(_)
Pow10(k) == IF k = 0 THEN 1 ELSE 10 * Pow10(k - 1)
\* n rounded to sig significant digits
RoundSig(n, sig) ==
    IF Digits(n) <= sig THEN n
    ELSE LET q == Pow10(Digits(n) - sig)
         IN ((n + q \div 2) \div q) * q
\* The number the engine prints for n (show, save); "%e" % x.
Shown(n) == RoundSig(n, 6)
Format_e(x) == RoundSig(x, 7)
Shown2(pair) == <<Shown(pair[1]), Shown(pair[2])>>
Format_e2(pair) == <<Format_e(pair[1]), Format_e(pair[2])>>
\* int(text) raises ValueError for a text that is not an integer's.
IsInt(n) == n % Unit = 0

\* A layout: origin, size (pairs) and the aspect ratio ("None", or a whole
\* number that is negative when the ratio is LOCKED).
LayoutOf(origin, size, ratio) ==
    [origin |-> origin, size |-> size, ratio |-> ratio]
DefaultLayout == LayoutOf(<<0, 0>>, <<Unit, Unit>>, "None")
Layouts ==
    {DefaultLayout,
     LayoutOf(<<Unit, 0>>, <<2 * Unit, Unit>>, 2),
     LayoutOf(<<Unit \div 2, Unit \div 4>>, <<Unit \div 2, Unit>>, -1),
     LayoutOf(<<12345678, 0>>, <<33333333, 66666667>>, "None")}
IsIntLayout(l) ==
    \A i \in 1..2 : IsInt(l.origin[i]) /\ IsInt(l.size[i])
\* What show and save '-' print of a layout.
ShownLayout(l) == LayoutOf(Shown2(l.origin), Shown2(l.size), l.ratio)
\* The size and the origin a plot was given (plot.size, plot.origin).
OwnSize == <<33333333, Unit \div 2>>
OwnOrigin == <<Unit \div 2, 66666666>>

\* The engine of a multiplot and what the refresh holds of it: the layout
\* (gp), the mode, the origin, size and ratio read by show (saved), and the
\* script read by save '-' (script).
EngineRun(l) ==
    [gp |-> l, mode |-> "", saved |-> LayoutOf(<<0, 0>>, <<0, 0>>, "None"),
     script |-> LayoutOf(<<0, 0>>, <<0, 0>>, "None")]

\* The engine answered the command as it does one it accepts.
Accepted(ev) == ev.out = (IF ev.c \in Queries THEN Answer ELSE <<>>)

\* The command ev on the session of the multiplot o, run being the engine
\* before it and child the layout in the scripts of the plots.  A script the
\* engine stops loading at an error has been run in part: partial tells
\* whether its layout lines were.
EngineStep(run, ev, o, child, partial) ==
    LET c == ev.c
        arg == ev.arg
    IN CASE ev.e # "cmd" \/ ev.o # o -> run
         [] ~Accepted(ev) /\ ~(c = "load {{script}}" /\ partial) -> run
         [] c = "show origin" ->
                [run EXCEPT !.saved.origin = Shown2(run.gp.origin)]
         [] c = "show size" ->
                [run EXCEPT !.saved.size = Shown2(run.gp.size),
                            !.saved.ratio = run.gp.ratio]
         [] c = "save '-'" -> [run EXCEPT !.script = ShownLayout(run.gp)]
         [] c = "set multiplot" -> [run EXCEPT !.mode = "multiplot"]
         [] c = "unset multiplot" -> [run EXCEPT !.mode = ""]
         [] c = "set origin" ->
                [run EXCEPT !.gp.origin =
                    IF arg = <<"saved">> THEN Format_e2(run.saved.origin)
                    ELSE Format_e2(OwnOrigin)]
         [] c = "set size" /\ arg # <<"saved">> ->
                [run EXCEPT !.gp.size = Format_e2(OwnSize)]
         [] c = "set size" /\ arg = <<"saved">> /\ plotrev = "plot.py" ->
                [run EXCEPT !.gp.size = Format_e2(run.saved.size),
                            !.gp.ratio = run.saved.ratio]
         [] c = "set size" /\ arg = <<"saved">> /\ plotrev # "plot.py" ->
                [run EXCEPT !.gp.size = Format_e2(run.saved.size)]
         [] c = "load {{script}}" /\ arg = <<o>> ->
                [run EXCEPT !.gp = run.script]
         [] c = "load {{script}}" /\ Len(arg) = 1 /\ arg # <<o>> ->
                [run EXCEPT !.gp = ShownLayout(child)]
         [] OTHER -> run

RECURSIVE EngineAfter(_, _, _, _, _, _)
EngineAfter(run, log, i, o, child, partial) ==
    IF i > Len(log) THEN run
    ELSE EngineAfter(EngineStep(run, log[i], o, child, partial),
                     log, i + 1, o, child, partial)

\* The commands of a refresh of the multiplot o that read its layout, enter
\* and leave the multiplot mode and restore the layout; the others replay
\* and plot the children.
IsFrame(ev, o) ==
    /\ ev.e = "cmd"
    /\ ev.o = o
    /\ \/ ev.c \in {"set multiplot", "unset multiplot", "save '-'"}
       \/ ev.c = "load {{script}}" /\ ev.arg = <<o>>
       \/ /\ plotrev = "plot.py"
          /\ \/ ev.c \in {"show origin", "show size"}
             \/ ev.c \in {"set origin", "set size"} /\ ev.arg = <<"saved">>
Entered(o) ==
    \E i \in DOMAIN lastop.log :
        /\ lastop.log[i].e = "cmd"
        /\ lastop.log[i].o = o
        /\ lastop.log[i].c = "set multiplot"
\* The operation ran a refresh of o in which the engine went wrong, if at
\* all, in replaying or plotting a child.
RefreshedMultiplot(o) ==
    /\ plotrev \in PlotRevisions
    /\ Entered(o)
    /\ lastop.exc \in {"", "GnuplotError", "ValueError"}
    /\ \A i \in DOMAIN lastop.log :
            IsFrame(lastop.log[i], o) => Accepted(lastop.log[i])
\* The layouts the refresh can read (src/xnuplot/plot.py reads the numbers
\* with int).
Readable(l) == plotrev = "plot.py" => IsIntLayout(l)

\* C21: an operation that refreshes a multiplot, the engine accepting all
\* the commands or rejecting one that replays or plots a child, leaves the
\* engine out of the multiplot mode and with the origin, the size and the
\* aspect ratio it printed before the refresh, whatever they were and
\* whatever the scripts, the sizes and the origins of the children set.
C21_MultiplotRefreshRestoresLayout ==
    \A o \in Multis :
        RefreshedMultiplot(o) =>
            \A l \in Layouts, child \in Layouts, partial \in BOOLEAN :
                Readable(l) =>
                    LET run == EngineAfter(EngineRun(l), lastop.log, 1, o,
                                           child, partial)
                    IN /\ run.mode = ""
                       /\ run.gp = ShownLayout(l)

\* A refresh of m1 in src/xnuplot/plot.py whose plot of p1 the engine
\* rejects, after the size p1 was given has been set: the engine had the
\* second of the layouts, and has it again.
C21_Witness ==
    /\ plotrev = "plot.py"
    /\ Did({"refresh"}, {"m1"})
    /\ RefreshedMultiplot("m1")
    /\ lastop.exc = "GnuplotError"
    /\ \E i \in DOMAIN lastop.log :
            /\ lastop.log[i].c = "set size"
            /\ lastop.log[i].arg = <<"p1">>
            /\ Accepted(lastop.log[i])
            /\ EngineAfter(EngineRun(LayoutOf(<<Unit, 0>>,
                                              <<2 * Unit, Unit>>, 2)),
                           SubSeq(lastop.log, 1, i), 1, "m1",
                           DefaultLayout, FALSE).gp.size
                    = Format_e2(OwnSize)
    /\ EngineAfter(EngineRun(LayoutOf(<<Unit, 0>>, <<2 * Unit, Unit>>, 2)),
                   lastop.log, 1, "m1", DefaultLayout, FALSE).gp
            = LayoutOf(<<Unit, 0>>, <<2 * Unit, Unit>>, 2)

\* The plot o is in the list of the multiplot mo.
Contains(mo, o) == \E i \in DOMAIN world.items[mo] : world.items[mo][i] = o

\* C22: a change of the list of a Plot that raises nothing refreshes every
\* multiplot that holds the Plot, has autorefresh on and a session that is
\* alive, and refreshes no multiplot that does not hold it.
C22_ChildMutationRefreshesParents ==
    (Did(Mutations, Plots) /\ lastop.exc = "") =>
        \A mo \in Multis :
            /\ (/\ Contains(mo, lastop.obj)
                /\ world.autorefresh[mo]
                /\ world.alive[mo]) => RefreshesAt({mo}) # {}
            /\ ~Contains(mo, lastop.obj) => RefreshesAt({mo}) = {}

\* A command that refreshes a Plot on the Plot's own session.
IsOwnRefresh(ev) ==
    ev.e = "cmd" /\ ev.o \in Plots /\ ev.c \in PlotCommands \cup {"clear"}

\* C23: between the start and the end of a refresh of a multiplot no plot
\* command and no clear is sent to the session of a Plot.
C23_MultiplotRefreshLeavesChildrenAlone ==
    \A mo \in Multis :
        \A i \in DOMAIN lastop.log, k \in DOMAIN lastop.log :
            (/\ lastop.log[i] = Note("refresh", mo)
             /\ i < k
             /\ IsOwnRefresh(lastop.log[k]))
                => \E j \in (i + 1)..(k - 1) : lastop.log[j] = Note("end", mo)

(***************************************************************************)
(* The outbound channels of a call.                                        *)
(***************************************************************************)
\* The call returned a value and left the session as it was.
ReturnedAlive == Ended /\ ret.kind = "return" /\ gp_proc # "None"

\* C24: when a call of src/xnuplot/gnuplot.py has returned a value and the
\* session is not terminated, the file of every file-mode channel the call
\* made is still there.
C24_FileChannelOutlivesCall ==
    (rev = "gnuplot.py" /\ ReturnedAlive) =>
        \A i \in DOMAIN chans : chans[i].mode = "file" => chans[i].exists

\* C25: when a call of src/xnuplot/gnuplot.py has ended, with a value or
\* with an exception, the writer of every pipe-mode channel it made has
\* finished and the named pipe is gone.
C25_PipeChannelEndsWithCall ==
    (rev = "gnuplot.py" /\ Ended) =>
        \A i \in DOMAIN chans :
            chans[i].mode = "pipe"
                => chans[i].writer = "done" /\ ~chans[i].exists

\* The operations on an object that plot what its list holds (plot() and
\* replot() plot the items they are given).
Refreshing == Mutations \cup {"refresh", "autorefresh", "size", "origin", "fit"}

Loaded == lastop.name = "load" /\ lastop.exc = ""
AutorefreshRequested == lastop.obj = "on"
AllPlotCommands ==
    SelectSeq(lastop.log, LAMBDA ev : ev.e = "cmd" /\ ev.c \in PlotCommands)

\* An item of the copy is the item of the original: the same string, or
\* data of the same data, options and mode.
SameItem(x, y) ==
    IF y.k = "str" THEN x = y
    ELSE x.k # "str" /\ Triple(AsPlotData(x)) = Triple(AsPlotData(y))

WrongFormat(rec) ==
    \/ rec.magic # MAGIC
    \/ rec.version > LOADABLE_FILE_VERSION
    \/ rec.plot \notin {"plot", "splot", "multiplot", "gridmultiplot"}

\* C28: load of a record that has the wrong format ends in FileFormatError.
C28_WrongFormatRaisesFileFormatError ==
    (lastop.name = "load" /\ WrongFormat(lastop.pre.file)) =>
        lastop.exc = "FileFormatError"

\* What load of a record that has the wrong format ends in: NameError, for
\* the name FormatError that the raise statements use.
C28_WrongFormatRaisesNameError ==
    (lastop.name = "load" /\ WrongFormat(lastop.pre.file)) =>
        /\ lastop.exc = "NameError"
        /\ lastop.msg = <<"FormatError">>

\* The writes of the line so far, in order, and what they wrote together.
IsWrite(ev) == ev.op \in {"send", "sendline"}
Writes == SelectSeq(io, IsWrite)
RECURSIVE Joined(_)
Joined(evs) == IF evs = <<>> THEN <<>> ELSE Head(evs).text \o Joined(Tail(evs))
Terminators == Cardinality({i \in DOMAIN io : io[i].op = "sendline"})

\* The line is written in chunks of the chunk length at most, in order; the
\* echo is read after a chunk before the next write; the line terminator
\* is sent at most once, with the last chunk, and once when the write is
\* over.
ChunkedWrite ==
    /\ \A i \in DOMAIN Writes : Len(Writes[i].text) <= chunk_length
    /\ Joined(Writes) = SubSeq(command, 1, Len(Joined(Writes)))
    /\ \A i \in DOMAIN io :
           (IsWrite(io[i]) /\ i < Len(io)) => io[i + 1].op \in {"expect", "EOF"}
    /\ \A i \in DOMAIN io :
           io[i].op = "sendline" =>
               /\ \A j \in (i + 1)..Len(io) : ~IsWrite(io[j])
               /\ Joined(Writes) = command
    /\ Terminators <= 1
    /\ pc \in {"echo", "sent"} => Terminators = 1

\* C29: a command line of any length is written in chunks of the
\* configured chunk length at most that make up the line, the echo is read
\* after each chunk, and the line terminator is sent once, after the last
\* chunk.
C29_LineIsWrittenInChunks == ChunkedWrite

\* The same of the sessions of src/xnuplot/gnuplot.py alone.
C29_RawGnuplotWritesInChunks == rev = "gnuplot.py" => ChunkedWrite

\* A line of twice the chunk length has been written by
\* src/xnuplot/gnuplot.py: two chunks and the terminator alone.
C29_ExactMultiple ==
    /\ rev = "gnuplot.py"
    /\ pc = "sent"
    /\ Len(command) = 2 * chunk_length
    /\ Len(Writes) = 3
    /\ Writes[3].text = <<>>

\* The constructor of the n-th channel has returned: its thread was
\* started, which is the constructor's last statement.
ConstructorReturned(ch) == ch.mode = "pipe" /\ ch.writer # "new"
EngineOpens == SelectSeq(io, LAMBDA ev : ev.op = "open")

\* C30: the named pipe of a pipe-mode channel exists from the return of
\* its constructor until the engine has opened it, whatever the writer
\* thread has done by then, so it exists when the line that names it is
\* sent; and the engine finds something at every path it opens.
C30_FifoExistsBeforeItIsNamed ==
    /\ \A i \in DOMAIN chans :
           (ConstructorReturned(chans[i]) /\ ~OpenedByEngine(i)) =>
               /\ chans[i].exists
               /\ chans[i].writer \in {"started", "blocked"}
    /\ \A i \in DOMAIN EngineOpens :
           chans[EngineOpens[i].at].mode = "pipe" =>
               EngineOpens[i].out = <<"found">>

\* Two named pipes: the thread of the first ran before the line was sent
\* and waited in its open, the thread of the second has not run yet, and
\* the engine has opened both.
C30_Witness ==
    /\ pc = "sent"
    /\ Len(chans) = 2
    /\ \A i \in {1, 2} : chans[i].mode = "pipe" /\ OpenedByEngine(i)
    /\ chans[1].writer = "done"
    /\ chans[2].writer = "started"
    /\ \A i \in DOMAIN EngineOpens : EngineOpens[i].out = <<"found">>

\* The writer of the n-th channel was started; it is done and the path is
\* gone.
WriterStarted(n) ==
    n \in DOMAIN chans /\ chans[n].mode = "pipe" /\ chans[n].writer # "new"
WriterDone(n) ==
    n \in DOMAIN chans /\ chans[n].writer = "done" /\ ~chans[n].exists

\* C31: the writer thread of every pipe-mode channel ends in the end, and
\* has deleted the path of the named pipe then.
C31_WriterEndsAndDeletesFifo ==
    \A n \in 1..MaxCmdLen : WriterStarted(n) ~> WriterDone(n)

\* What does hold: the writer of a pipe the engine has opened ends and
\* deletes the path; and only a writer whose open has returned deletes the
\* path of a pipe.
C31_WriterOfOpenedFifoEnds ==
    \A n \in 1..MaxCmdLen :
        (WriterStarted(n) /\ OpenedByEngine(n)) ~> WriterDone(n)
C31_FifoDeletedAfterWrite ==
    [][\A n \in DOMAIN chans :
          (chans[n].mode = "pipe" /\ chans[n].exists /\ ~chans'[n].exists) =>
              (chans[n].writer = "writing" /\ chans'[n].writer = "done")]_vars

\* The log up to its i-th entry.
LogUpTo(i) == SubSeq(lastop.log, 1, i)
IsNote(ev, e, o) == ev.e = e /\ ev.o = o

\* C32: at every point of an operation at most one refresh of a collection
\* is running: a refresh of it begins only when every earlier refresh of
\* it has ended, whatever the commands of the refresh and the refreshes of
\* its parents and children trigger.
C32_OneRefreshInFlight ==
    \A o \in Objs : \A i \in DOMAIN lastop.log :
        InFlight(LogUpTo(i), o) \in {0, 1}

\* A refresh of the multiplot ran with a refresh of its child inside it,
\* and both ended.
C32_Witness ==
    /\ lastop.name \in Mutations \cup {"refresh"}
    /\ \E i, j, k, l \in DOMAIN lastop.log :
           /\ i < j /\ j < k /\ k < l
           /\ IsNote(lastop.log[i], "refresh", "m1")
           /\ IsNote(lastop.log[j], "refresh", "p1")
           /\ IsNote(lastop.log[k], "end", "p1")
           /\ IsNote(lastop.log[l], "end", "m1")
    /\ InFlight(lastop.log, "m1") = 0

\* A refresh of o began in the last operation.
RefreshBegan(o) ==
    \E i \in DOMAIN lastop.log : IsNote(lastop.log[i], "refresh", o)

\* C33: when an operation is over, however it ended, no collection's
\* refresh guard is held (fit and environment_script have put it back);
\* so a mutation of a live plot with autorefresh on begins a refresh of it,
\* also when the operation before it was a refresh that failed.
C33_GuardIsReleased ==
    /\ \A o \in Objs : ~world.guard[o]
    /\ (/\ plotrev = "_plot.py"
        /\ Did(Mutations, Plots)
        /\ lastop.pre.autorefresh[lastop.obj]
        /\ lastop.pre.alive[lastop.obj]) => RefreshBegan(lastop.obj)

\* A refresh of p1 failed with GnuplotError and the guard is not held.
C33_Witness ==
    /\ plotrev = "_plot.py"
    /\ Did(Mutations \cup {"refresh"}, {"p1"})
    /\ RefreshBegan("p1")
    /\ lastop.exc = "GnuplotError"
    /\ world.alive["p1"]
    /\ ~world.guard["p1"]

(***************************************************************************)
(* The order of the commands of a refresh of a multiplot.                  *)
(***************************************************************************)
\* The place of the first plot that holds items in the list of o, from the
\* place from on; 0 when there is none.
FirstNonEmpty(o, from) ==
    LET places == {j \in from..Len(world.items[o]) :
                       world.items[world.items[o][j]] # <<>>}
    IN IF places = {} THEN 0
       ELSE CHOOSE j \in places : \A k \in places : j <= k

\* Where a refresh of a multiplot is: the phase, the place of the next
\* plot of the list, and the plot being replayed.
Order(ph, nxt, ch) == [ph |-> ph, nxt |-> nxt, ch |-> ch]
Bad == Order("bad", 0, "")

\* The refresh sources the script of the next plot that holds items.  In
\* the pattern "filtered" the script has no line that sets the origin or
\* the size; in the pattern "reset" it is the whole script, sourced between
\* the reading of the origin and the size and their being set again.
SourcesChild(st, ev, o, pat) ==
    LET j == FirstNonEmpty(o, st.nxt)
    IN /\ ev.c = "load {{script}}"
       /\ j # 0
       /\ ev.arg = (IF pat = "filtered"
                    THEN <<world.items[o][j], "no origin, no size">>
                    ELSE <<world.items[o][j]>>)

\* The command ev of the session of o, met in the state st.
OrderOfCmd(st, ev, o, pat, failed) ==
    LET c == ev.c
        ph == st.ph
        to(q) == Order(q, st.nxt, st.ch)
        inChild == ph \in {"entered", "script", "sized", "placed",
                           "asked", "read", "whole", "back"}
    IN CASE c = "clear" /\ ph = "begun" /\ world.items[o] = <<>> ->
                to("restored")
         [] c = "show origin" /\ ph = "begun" -> to("half")
         [] c = "show size" /\ ph = "half" -> to("captured")
         [] c = "save '-'" /\ ph = "begun" -> to("captured")
         [] c = "set multiplot" /\ ph = "captured" -> to("entered")
         [] c = "show origin" /\ ph = "entered" /\ pat = "reset" ->
                to("asked")
         [] c = "show size" /\ ph = "asked" -> to("read")
         [] c = "load {{script}}" /\ ev.arg # <<o>>
              /\ ph = (IF pat = "reset" THEN "read" ELSE "entered") ->
                IF SourcesChild(st, ev, o, pat)
                THEN Order(IF pat = "reset" THEN "whole" ELSE "script",
                           FirstNonEmpty(o, st.nxt) + 1,
                           world.items[o][FirstNonEmpty(o, st.nxt)])
                ELSE Bad
         [] c = "set origin" /\ ev.arg = <<"saved">> /\ ph = "whole" ->
                to("back")
         [] c = "set size" /\ ev.arg = <<"saved">> /\ ph = "back" ->
                to("script")
         [] c = "set size" /\ ev.arg = <<st.ch>> /\ ph = "script"
              /\ world.size[st.ch] # "None" -> to("sized")
         [] c = "set origin" /\ ev.arg = <<st.ch>>
              /\ ph = (IF world.size[st.ch] # "None" THEN "sized"
                       ELSE "script")
              /\ world.origin[st.ch] # "None" -> to("placed")
         [] c = "plot"
              /\ ph = (IF world.origin[st.ch] # "None" THEN "placed"
                       ELSE IF world.size[st.ch] # "None" THEN "sized"
                       ELSE "script")
              /\ ev.its = Rendered(world.items[st.ch]) -> to("entered")
         [] c = "unset multiplot" /\ inChild
              /\ (failed \/ (ph = "entered" /\ FirstNonEmpty(o, st.nxt) = 0))
                -> to("exited")
         [] c = "set origin" /\ ev.arg = <<"saved">> /\ ph = "exited" ->
                to("halfback")
         [] c = "set size" /\ ev.arg = <<"saved">> /\ ph = "halfback" ->
                to("restored")
         [] c = "load {{script}}" /\ ev.arg = <<o>> /\ ph = "exited" ->
                to("restored")
         [] OTHER -> Bad

\* The entry ev of the log of an operation, met in the state st; failed
\* tells that the operation raised, so that a refresh may have been cut
\* short.
OrderStep(st, ev, o, pat, failed) ==
    CASE st.ph = "bad" \/ ev.o # o \/ ev.e \notin {"refresh", "end", "cmd"}
            -> st
      [] ev.e = "refresh" ->
            IF st.ph = "idle" THEN Order("begun", 1, "") ELSE Bad
      [] ev.e = "end" ->
            IF st.ph = "restored" \/ (failed /\ st.ph # "idle")
            THEN Order("idle", 0, "") ELSE Bad
      [] OTHER -> OrderOfCmd(st, ev, o, pat, failed)

RECURSIVE OrderAfter(_, _, _, _, _)
OrderAfter(st, log, i, o, pat) ==
    IF i > Len(log) THEN st
    ELSE OrderAfter(OrderStep(st, log[i], o, pat, lastop.exc # ""),
                    log, i + 1, o, pat)

\* The commands the last operation sent to the session of the multiplot o
\* all belong to refreshes of o that follow the pattern.
InOrder(o, pat) ==
    OrderAfter(Order("idle", 0, ""), lastop.log, 1, o, pat).ph = "idle"

\* The operations that send a multiplot nothing but its refreshes.
RefreshOnly == Mutations \cup {"refresh"}

\* C34: the commands of a refresh of a multiplot come in this order: the
\* layout is read, the multiplot mode is entered, then for each plot of the
\* list that holds items, in the order of the list, its script without the
\* lines that set the origin and the size is sourced, its own size and
\* origin are set if it has them, and it is plotted; after the last the
\* mode is left and the layout is set again.  No plot command comes before
\* the mode is entered or after it is left.
C34_MultiplotRefreshOrder ==
    (plotrev \in PlotRevisions /\ lastop.name \in RefreshOnly) =>
        \A o \in Multis : InOrder(o, "filtered")

\* The same of src/xnuplot/plot.py alone.
C34_RefreshOrderOfPlotPy ==
    (plotrev = "plot.py" /\ lastop.name \in RefreshOnly) =>
        \A o \in Multis : InOrder(o, "filtered")

\* What src/xnuplot/_plot.py does for a plot: it reads the origin and the
\* size, sources the whole script, sets the origin and the size it read,
\* and goes on as above.
C34_RefreshOrderOfUnderscorePlotPy ==
    (plotrev = "_plot.py" /\ lastop.name \in RefreshOnly) =>
        \A o \in Multis : InOrder(o, "reset")

\* A refresh of m1 that plotted two plots and raised nothing.
C34_TwoChildren ==
    /\ lastop.name \in RefreshOnly
    /\ lastop.exc = ""
    /\ Len(PlotCommandsTo("m1")) = 2
    /\ world.items["m1"] = <<"p1", "p2">>

(***************************************************************************)
(* The parents of the plots: the lists are changed by the methods above    *)
(* and by those that put several elements into a list at once.             *)
(***************************************************************************)
\* list.extend, with a list of two plots
List_extend ==
    \E o \in Multis : \E x \in Plots, y \in Plots, f \in Faults :
        /\ BetweenLists
        /\ Len(world.items[o]) + 2 <= Capacity(o)
        /\ Finish("extend", o,
                  call_and_refresh(o, world.items[o] \o <<x, y>>, f))

\* self *= 2: list.__imul__
List_imul ==
    \E o \in Multis, f \in Faults :
        /\ BetweenLists
        /\ 2 * Len(world.items[o]) <= Capacity(o)
        /\ Finish("imul", o,
                  call_and_refresh(o, world.items[o] \o world.items[o], f))

FamilyNext ==
    \/ List_append
    \/ List_extend
    \/ List_imul
    \/ List_pop
    \/ List_remove
    \/ List_delslice
    \/ ObservedList_clear
    \/ ObservedList_keep
    \/ Caller_next

Family == PlotInit /\ [][FamilyNext]_vars

\* C35: whatever the changes of the list of a multiplot, the multiplot is
\* among the parents of a plot exactly when the plot is in its list, and it
\* is there once, however many places the plot has in the list.
C35_ParentsMirrorMembership ==
    plotrev \in PlotRevisions =>
        \A mo \in Multis, p \in Plots :
            Count(mo, world.parents[p]) = (IF Contains(mo, p) THEN 1 ELSE 0)

\* What does hold: the multiplot is among the parents of the plots of its
\* list and of no other plot.
C35_ParentsOfMembersOnly ==
    plotrev \in PlotRevisions =>
        \A mo \in Multis, p \in Plots :
            Count(mo, world.parents[p]) > 0 <=> Contains(mo, p)

\* And a plot that came into the list alone, or was in it already, has the
\* multiplot once among its parents.
C35_OnceWhenAddedAlone ==
    (plotrev \in PlotRevisions /\ lastop.name \in Mutations \cup {"imul"}) =>
        \A mo \in Multis, p \in Plots :
            Count(mo, lastop.pre.parents[p]) <= 1
                => Count(mo, world.parents[p]) <= 1

\* The places of the data items in the items of a plot command, and the
\* bindings passed with the command: data_dict[placeholder] = data for each
\* of them in turn, a later one replacing an earlier one of the same name.
DataPlaces(its) == {i \in DOMAIN its : its[i].k = "data"}
Bound(its) ==
    [n \in {its[i].name : i \in DataPlaces(its)} |->
        its[CHOOSE i \in DataPlaces(its) :
                /\ its[i].name = n
                /\ \A j \in DataPlaces(its) : its[j].name = n => j <= i].v]

\* The items its of a plot command list the items src, one for one and in
\* order: a string as it is, data as a placeholder bound to the data.
Lists(its, src) ==
    /\ Len(its) = Len(src)
    /\ \A i \in DOMAIN src :
           IF src[i].k = "str"
           THEN its[i].k = "str" /\ its[i].v = src[i].v
           ELSE /\ its[i].k = "data"
                /\ Bound(its)[its[i].name] = AsPlotData(src[i]).v

\* C36: in every plot command the placeholder of a data item is named
\* after the place of the item, no two data items have the same name, and
\* there is one binding for each; and the command of a refresh lists the
\* items of the list once each and in order, the data items bound to their
\* data.
C36_EveryItemOnceEveryDataBound ==
    \A n \in DOMAIN CommandsSent :
        LET ev == CommandsSent[n]
            its == ev.its
        IN ev.c \in PlotCommands =>
            /\ \A i \in DataPlaces(its) : its[i].name = i - 1
            /\ \A i \in DataPlaces(its), j \in DataPlaces(its) :
                   i # j => its[i].name # its[j].name
            /\ Cardinality(DOMAIN Bound(its)) = Cardinality(DataPlaces(its))
            /\ (plotrev \in PlotRevisions /\ lastop.name \in Refreshing) =>
                   IF ev.o \in Plots THEN Lists(its, world.items[ev.o])
                   ELSE \E j \in DOMAIN world.items[ev.o] :
                            Lists(its, world.items[world.items[ev.o][j]])

\* p1 holds two data items and was plotted: the placeholders are item 0
\* and item 1, each bound.
C36_Witness ==
    /\ Did(Mutations, {"p1"})
    /\ lastop.exc = ""
    /\ world.items["p1"] = <<DataItem, DataItem>>
    /\ OnePlotOf(PlotCommandsTo("p1"), "p1")
    /\ DOMAIN Bound(PlotCommandsTo("p1")[1].its) = {0, 1}

(***************************************************************************)
(* The refresh of a multiplot when the read of the echo of one of its      *)
(* commands times out: pexpect.TIMEOUT leaves _sendline and the call, and  *)
(* the session stays alive.                                                *)
(***************************************************************************)
EchoTimeouts == [at : 1..MaxErrorAt, kind : {"echo"}, out : {<<>>}]

\* multiplot.refresh(), the echo of one command timing out
Refresh_with_timeout ==
    \E o \in Multis, f \in EchoTimeouts :
        /\ BetweenLists
        /\ world.items[o] # <<>>
        /\ Finish("refresh", o, Invoke(Machine(world, f), "refresh", <<o>>))

EnteringNext ==
    \/ List_append
    \/ Refresh_with_error
    \/ Refresh_with_timeout
    \/ Caller_next

Entering == PlotInit /\ [][EnteringNext]_vars

\* The prompt a session expects outside the multiplot mode.
NormalPrompt == FreshWorld.gp_prompt["m1"]

\* C37: when no operation is running, the prompt that a session which is
\* alive expects is the normal one, however the refreshes of the
\* operations before ended.
C37_PromptIsRestored ==
    \A o \in Objs : world.alive[o] => world.gp_prompt[o] = NormalPrompt

\* What does hold: an operation leaves the normal prompt as it is unless
\* the command that enters the multiplot mode was the last one it sent to
\* the session and raised; every way out of the refresh after that command
\* puts the prompt back.
C37_PromptRestoredOnceEntered ==
    \A o \in Objs :
        (/\ lastop.name # ""
         /\ lastop.pre.gp_prompt[o] = NormalPrompt
         /\ world.alive[o]
         /\ world.gp_prompt[o] # NormalPrompt) =>
            /\ lastop.exc # ""
            /\ CommandsTo(o) # <<>>
            /\ CommandsTo(o)[Len(CommandsTo(o))].c = "set multiplot"

(***************************************************************************)
(* Commands that the caller sends through a plot object: obj("set ...")    *)
(* runs the wrapped __call__, and obj.environment_script() sends save '-'  *)
(* through it.                                                             *)
(***************************************************************************)
\* obj("set title 'a'")
BasePlot_call_command ==
    \E o \in Objs, f \in Faults :
        /\ BetweenLists
        /\ Finish("call", o,
                  Invoke(Machine(world, f), "__call__",
                         <<o, "set title", <<>>, <<>>>>))

\* obj.environment_script()
BasePlot_environment_script_called ==
    \E o \in Objs, f \in Faults :
        /\ BetweenLists
        /\ Finish("environment_script", o,
                  Invoke(Machine(world, f), "environment_script", <<o>>))

CallingNext ==
    \/ List_append
    \/ Set_autorefresh
    \/ BasePlot_call_command
    \/ BasePlot_environment_script_called
    \/ Plot_fit_data
    \/ Refresh
    \/ Caller_next

Calling == PlotInit /\ [][CallingNext]_vars

\* How many refreshes of o the last operation began.
Refreshes(o) == Cardinality(RefreshesAt({o}))

\* The refreshes of o that a settings command sent through o, a refresh of
\* o, environment_script() and fit() make: one after the command when
\* autorefresh is on, the refresh itself and no other for the commands it
\* sends, none for the save of environment_script(), and the one that ends
\* fit() at most.
RefreshesOnce(o) ==
    /\ (Did({"call"}, {o}) /\ lastop.exc = "") =>
           Refreshes(o) = (IF lastop.pre.autorefresh[o] THEN 1 ELSE 0)
    /\ (Did({"refresh"}, {o}) /\ lastop.exc = "") =>
           Refreshes(o) = (IF lastop.pre.alive[o] THEN 1 ELSE 0)
    /\ Did({"environment_script"}, {o}) => Refreshes(o) = 0
    /\ Did({"fit"}, {o}) => Refreshes(o) <= 1

\* C38: a command sent through a collection that has autorefresh on is
\* followed by one refresh of the collection, and the commands that a
\* refresh, fit() and environment_script() send through it are followed by
\* none.
C38_CallRefreshesOnce ==
    plotrev \in PlotRevisions => \A o \in Objs : RefreshesOnce(o)

\* The same of src/xnuplot/_plot.py alone.
C38_CallRefreshesOnceInUnderscorePlotPy ==
    plotrev = "_plot.py" => \A o \in Objs : RefreshesOnce(o)

\* A command was sent through p1, which is in m1, and p1 and m1 were
\* refreshed once each.
C38_CallInMultiplot ==
    /\ plotrev = "_plot.py"
    /\ Did({"call"}, {"p1"})
    /\ lastop.exc = ""
    /\ Contains("m1", "p1")
    /\ Refreshes("p1") = 1
    /\ Refreshes("m1") = 1

\* The operations that change a list.
ListChanges == Mutations \cup {"extend", "imul"}
NeverReentered ==
    \A o \in Objs : \A i \in DOMAIN lastop.log :
        InFlight(LogUpTo(i), o) \in {0, 1}
NoParentTwice(w) ==
    \A p \in Plots, mo \in Multis : Count(mo, w.parents[p]) <= 1

\* C39: the refreshes that one change of a list sets off come to an end,
\* no collection is refreshed more than once in them, and no refresh of a
\* collection begins while one of it is running.
C39_OneRefreshPerMutation ==
    (plotrev \in PlotRevisions /\ lastop.name \in ListChanges) =>
        /\ \A o \in Objs : Refreshes(o) <= 1
        /\ NeverReentered
        /\ \A o \in Objs : lastop.exc = "" => InFlight(lastop.log, o) = 0

\* What does hold in both revisions: every refresh that began has ended
\* when the operation returns, and none began while one of the same
\* collection was running.
C39_CascadeEndsAndNeverReenters ==
    (plotrev \in PlotRevisions /\ lastop.name \in ListChanges) =>
        /\ NeverReentered
        /\ \A o \in Objs : lastop.exc = "" => InFlight(lastop.log, o) = 0

\* And in src/xnuplot/_plot.py no collection is refreshed twice as long as
\* no plot has a multiplot twice among its parents.
C39_OncePerParentEntry ==
    (/\ plotrev = "_plot.py"
     /\ lastop.name \in ListChanges
     /\ NoParentTwice(world)) => \A o \in Objs : Refreshes(o) <= 1

(***************************************************************************)
(* src/xnuplot/utils.py: the context manager no_autorefresh, as the        *)
(* functions of the module use it: with no_autorefresh(plot) as plot2:     *)
(* followed by commands sent through the plot and changes of its list.     *)
(***************************************************************************)
\* The block of the with statement: a command sent through the plot, or
\* an item appended to it.
Block(m, o, body) ==
    IF body = "call"
    THEN Invoke(m, "__call__", <<o, "set mouse", <<>>, <<>>>>)
    ELSE autorefresh_after(
             [m EXCEPT !.w.items[o] = Append(@, StrItem)], o)

\* no_autorefresh after the yield: the generator is resumed when the block
\* has ended; an exception of the block is thrown into it at the yield,
\* which no try statement encloses, and leaves it there.
no_autorefresh_exit(ran, o, saveautorefresh) ==
    IF ran.exc # "" THEN ran
    ELSE Assign(ran, "autorefresh", o, saveautorefresh)

\* with no_autorefresh(o): block
no_autorefresh(m, o, body) ==
    no_autorefresh_exit(Block(Assign(m, "autorefresh", o, FALSE), o, body),
                        o, m.w.autorefresh[o])

\* utils.input_polyline and the other functions that run their commands
\* in a block of no_autorefresh
With_no_autorefresh ==
    \E o \in Plots, body \in {"call", "append"}, f \in Faults :
        /\ BetweenLists
        /\ body = "append" => Len(world.items[o]) < Capacity(o)
        /\ Finish("no_autorefresh", o,
                  no_autorefresh(Machine(world, f), o, body))

BlockingNext ==
    \/ List_append
    \/ Set_autorefresh
    \/ With_no_autorefresh
    \/ Caller_next

Blocking == PlotInit /\ [][BlockingNext]_vars

\* The last operation was a block of no_autorefresh for the plot o.
Blocked(o) == Did({"no_autorefresh"}, {o})

\* C40: a block of no_autorefresh for a plot begins no refresh of the plot
\* and sends it no plot command, and when the block is left, by its end or
\* by an exception, the autorefresh of the plot is what it was before.
C40_BlockRestoresAutorefresh ==
    \A o \in Plots :
        Blocked(o) =>
            /\ Refreshes(o) = 0
            /\ PlotCommandsTo(o) = <<>>
            /\ world.autorefresh[o] = lastop.pre.autorefresh[o]

\* What does hold: no refresh of the plot in the block, and the
\* autorefresh restored when the block came to its end.
C40_RestoredAtEndOfBlock ==
    \A o \in Plots :
        Blocked(o) =>
            /\ Refreshes(o) = 0
            /\ PlotCommandsTo(o) = <<>>
            /\ lastop.exc = "" =>
                   world.autorefresh[o] = lastop.pre.autorefresh[o]
            /\ (lastop.exc # "" /\ world.alive[o]) => ~world.autorefresh[o]

====
